---- MODULE Spec2Model ----
(***************************************************************************)
(* DEFLATE compression engine of Exploration-of-data-compression-methods. *)
(*                                                                         *)
(* The module models, from the Python sources:                             *)
(*   - the bit stream primitives (BitWriter / BitReader),                  *)
(*   - the length / distance symbol tables and their mappings              *)
(*     (LZ77.map_length / map_distance in both LZ77 modules, LZPair),      *)
(*   - the canonical Huffman coder (HuffmanTree, heapq merge),             *)
(*   - the dynamic-header run-length scheme (write_tree_description),      *)
(*   - the match finder, the block encoder and the block decoder.          *)
(*                                                                         *)
(* Each part has its own specification over its own state variable(s);     *)
(* the variables of the other parts stay at their idle value.              *)
(***************************************************************************)
EXTENDS Integers, Sequences, FiniteSets, TLC

VARIABLES
    mapping,    \* symbol-table mapping under test: input, result, extra bits, decoded value
    canon,      \* canonical code assignment: encoder table, transmitted lengths, decoder table
    huff,       \* HuffmanTree under construction: freq_dict, res_codes, canon_codes
    lz,         \* LZ77.compress(deflate=True): data, window, position, hash table, tokens
    enc,        \* Deflate.compress_file: blocks, writer bits, output file
    dec,        \* Deflate.decompress_file: reader bits and position, decoded bytes
    blk,        \* one block coded by both block encoders
    rle,        \* code-length list, its run-length symbols, the list decoded back
    stm,        \* a DEFLATE stream read by Deflate.decompress / decompress_file: blocks, position, output
    inf,        \* Inflater: sliding window and output stream while tokens are processed
    bio,        \* bit stream under test: bits written, values read back, positions
    fnd,        \* LZ77.find_match call by call: data, position, hash table, candidates, result
    win,        \* LZWindow: ring buffer, write position, size, the last find
    turns       \* the decoders turn by turn: the turns taken by each loop

vars == << mapping, canon, huff, lz, enc, dec, blk, rle, stm, inf, bio, fnd, win, turns >>

Off == [pc |-> "off"]

\* ------------------------------------------------------------------ helpers

Min(a, b) == IF a < b THEN a ELSE b
Max(a, b) == IF a > b THEN a ELSE b

\* ------------------------------------------------------------ Bit Stream I/O

\* a writer that appends the low bit of the value first under the MSB name.
write_bits_msb_low_first(bits, value, length) ==
    IF length = 0 THEN bits
    ELSE bits \o [k \in 1..length |-> (value \div 2^(k - 1)) % 2]

\* BitWriter.write_bits_msb: appends (value >> i) & 1 for i = length-1 .. 0.
write_bits_msb(bits, value, length) ==
    IF length = 0 THEN bits
    ELSE bits \o [k \in 1..length |-> (value \div 2^(length - k)) % 2]

\* BitWriter.write_bits_lsb: appends (value >> i) & 1 for i = 0 .. length-1.
write_bits_lsb(bits, value, length) ==
    IF length = 0 THEN bits
    ELSE bits \o [k \in 1..length |-> (value \div 2^(k - 1)) % 2]

\* BitWriter.flush_to_file / byte_align: zero bits up to the next byte boundary.
byte_align_write(bits) ==
    bits \o [k \in 1..((8 - (Len(bits) % 8)) % 8) |-> 0]

\* BitReader.read_bit: EOFError when pos >= len(bits).
read_bit(bits, pos) ==
    IF pos >= Len(bits) THEN [eof |-> TRUE, val |-> 0, pos |-> pos]
    ELSE [eof |-> FALSE, val |-> bits[pos + 1], pos |-> pos + 1]

RECURSIVE lsb_value(_, _, _, _)
lsb_value(bits, pos, n, i) ==
    IF i >= n THEN 0
    ELSE bits[pos + 1 + i] * 2^i + lsb_value(bits, pos, n, i + 1)

\* a reader without the length test: it consumes the bits that are left and only
\* then meets the EOFError of read_bit.
read_bits_lsb_unchecked(bits, pos, n) ==
    IF pos + n > Len(bits) THEN [eof |-> TRUE, val |-> 0, pos |-> Len(bits)]
    ELSE [eof |-> FALSE, val |-> lsb_value(bits, pos, n, 0), pos |-> pos + n]

\* BitReader.read_bits_lsb: EOFError when pos + n > len(bits), else val |= bit << i.
read_bits_lsb(bits, pos, n) ==
    IF pos + n > Len(bits) THEN [eof |-> TRUE, val |-> 0, pos |-> pos]
    ELSE [eof |-> FALSE, val |-> lsb_value(bits, pos, n, 0), pos |-> pos + n]

RECURSIVE msb_value(_, _, _, _)
msb_value(bits, pos, n, i) ==
    IF i >= n THEN 0
    ELSE bits[pos + 1 + i] * 2^(n - 1 - i) + msb_value(bits, pos, n, i + 1)

\* BitReader.read_bits_msb: EOFError when pos + n > len(bits), else
\* val = (val << 1) | bit.
read_bits_msb(bits, pos, n) ==
    IF pos + n > Len(bits) THEN [eof |-> TRUE, val |-> 0, pos |-> pos]
    ELSE [eof |-> FALSE, val |-> msb_value(bits, pos, n, 0), pos |-> pos + n]

\* BitReader.byte_align: the position moves up to the next multiple of 8.
byte_align_read(pos) ==
    IF (pos % 8) # 0 THEN pos + (8 - (pos % 8)) ELSE pos

\* BitOutputStream (src/bit_streaming.py): [bytes, count, bit_val, bit_pos].
\* __init__: count = 0, bit_val = 0, bit_pos = 0 over an empty output.
NewBitOutputStream == [bytes |-> <<>>, count |-> 0, bit_val |-> 0, bit_pos |-> 0]

\* write_byte: out_stream.write(bytes([v & 0xff])); count += 1.
write_byte(st, v) == [st EXCEPT !.bytes = Append(@, v % 256), !.count = @ + 1]

\* "bit_val |= bit << bit_pos"
or_bit(bit_val, bit, bit_pos) ==
    IF bit = 1 /\ (bit_val \div 2^bit_pos) % 2 = 0 THEN bit_val + 2^bit_pos ELSE bit_val

\* write_bits, "for m in range(n)": the bit goes in at bit_pos, and a full byte
\* is written out and the queue reset.
RECURSIVE write_bits_loop(_, _, _, _)
write_bits_loop(st, v, n, m) ==
    IF m >= n THEN st
    ELSE LET bit_val == or_bit(st.bit_val, (v \div 2^m) % 2, st.bit_pos)
             bit_pos == st.bit_pos + 1
         IN  write_bits_loop(
                 IF bit_pos > 7
                 THEN [write_byte(st, bit_val) EXCEPT !.bit_val = 0, !.bit_pos = 0]
                 ELSE [st EXCEPT !.bit_val = bit_val, !.bit_pos = bit_pos],
                 v, n, m + 1)

write_bits(st, v, n) == write_bits_loop(st, v, n, 0)

\* flush_bits: "if self.bit_pos > 0: self.write_bits(0xff, 8 - self.bit_pos)".
flush_bits(st) == IF st.bit_pos > 0 THEN write_bits(st, 255, 8 - st.bit_pos) ELSE st

\* the bits a BitOutputStream holds in writing order: the bytes it has written
\* out, each from its low bit up, then the bit_pos bits waiting in bit_val.
stream_bits(st) ==
    <<>> \o [k \in 1..(8 * Len(st.bytes) + st.bit_pos) |->
               IF k <= 8 * Len(st.bytes)
               THEN (st.bytes[((k - 1) \div 8) + 1] \div 2^((k - 1) % 8)) % 2
               ELSE (st.bit_val \div 2^(k - 1 - 8 * Len(st.bytes))) % 2]

\* ------------------------------------------------------------ Symbol Tables

MAX_WINDOW_SIZE == 32768
lookahead_buffer_size == 258

\* LZ77._length_table: (code, base length, extra bits).
length_table == <<
    <<257, 3, 0>>, <<258, 4, 0>>, <<259, 5, 0>>, <<260, 6, 0>>,
    <<261, 7, 0>>, <<262, 8, 0>>, <<263, 9, 0>>, <<264, 10, 0>>,
    <<265, 11, 1>>, <<266, 13, 1>>, <<267, 15, 1>>, <<268, 17, 1>>,
    <<269, 19, 2>>, <<270, 23, 2>>, <<271, 27, 2>>, <<272, 31, 2>>,
    <<273, 35, 3>>, <<274, 43, 3>>, <<275, 51, 3>>, <<276, 59, 3>>,
    <<277, 67, 4>>, <<278, 83, 4>>, <<279, 99, 4>>, <<280, 115, 4>>,
    <<281, 131, 5>>, <<282, 163, 5>>, <<283, 195, 5>>, <<284, 227, 5>>,
    <<285, 258, 0>> >>

\* LZ77._distance_table: (code, base distance, extra bits).
distance_table == <<
    <<0, 1, 0>>, <<1, 2, 0>>, <<2, 3, 0>>, <<3, 4, 0>>,
    <<4, 5, 1>>, <<5, 7, 1>>, <<6, 9, 2>>, <<7, 13, 2>>,
    <<8, 17, 3>>, <<9, 25, 3>>, <<10, 33, 4>>, <<11, 49, 4>>,
    <<12, 65, 5>>, <<13, 97, 5>>, <<14, 129, 6>>, <<15, 193, 6>>,
    <<16, 257, 7>>, <<17, 385, 7>>, <<18, 513, 8>>, <<19, 769, 8>>,
    <<20, 1025, 9>>, <<21, 1537, 9>>, <<22, 2049, 10>>, <<23, 3073, 10>>,
    <<24, 4097, 11>>, <<25, 6145, 11>>, <<26, 8193, 12>>, <<27, 12289, 12>>,
    <<28, 16385, 13>>, <<29, 24577, 13>> >>

Mapped(code, bits, val) == [ok |-> TRUE, code |-> code, bits |-> bits, val |-> val]
RangeError == [ok |-> FALSE, code |-> -1, bits |-> 0, val |-> 0]

\* --- src/algorithms/deflate_utils/LZ77_deflate.py: forward scan, first entry
\*     whose upper end (base + 2^extra - 1) is >= the value; a fall-through default.
RECURSIVE first_covering(_, _, _, _)
first_covering(table, value, k, default) ==
    IF k > Len(table) THEN default
    ELSE IF value <= table[k][2] + 2^(table[k][3]) - 1
         THEN Mapped(table[k][1], table[k][3], value - table[k][2])
         ELSE first_covering(table, value, k + 1, default)

alg_map_length(length) ==
    first_covering(length_table, length, 1, Mapped(285, 0, 0))

alg_map_distance(dist) ==
    first_covering(distance_table, dist, 1, Mapped(29, 13, dist - 24577))

\* --- src/LZ77.py: reversed scan, first entry whose base is <= the value;
\*     ValueError when no base is.
RECURSIVE last_base_below(_, _, _)
last_base_below(table, value, k) ==
    IF k < 1 THEN RangeError
    ELSE IF value >= table[k][2]
         THEN Mapped(table[k][1], table[k][3], value - table[k][2])
         ELSE last_base_below(table, value, k - 1)

src_map_length(length) == last_base_below(length_table, length, Len(length_table))

src_map_distance(dist) == last_base_below(distance_table, dist, Len(distance_table))

\* --- src/LZ_Pair.py: the tables generated at class load.
LEN_BASE == [i \in 0..28 |->
    IF i < 8 THEN 3 + i
    ELSE IF i < 28 THEN (4 + ((i - 8) % 4)) * 2^(((i - 8) \div 4) + 1) + 3
    ELSE 258]
LEN_BITS == [i \in 0..28 |->
    IF i < 8 THEN 0 ELSE IF i < 28 THEN ((i - 8) \div 4) + 1 ELSE 0]
DIST_BASE == [i \in 0..29 |->
    IF i < 4 THEN 1 + i
    ELSE (2 + ((i - 4) % 2)) * 2^(((i - 4) \div 2) + 1) + 1]
DIST_BITS == [i \in 0..29 |-> IF i < 4 THEN 0 ELSE ((i - 4) \div 2) + 1]

\* LZPair.__init__, length part: first i with LEN_BASE[i] <= length <= max_len.
RECURSIVE pair_len_scan(_, _)
pair_len_scan(length, i) ==
    IF i >= 29 THEN RangeError
    ELSE LET max_len == IF i < 28 THEN LEN_BASE[i] + 2^(LEN_BITS[i]) - 1 ELSE 258
         IN  IF length >= LEN_BASE[i] /\ length <= max_len
             THEN Mapped(257 + i, LEN_BITS[i], length - LEN_BASE[i])
             ELSE pair_len_scan(length, i + 1)

\* LZPair.__init__, distance part.
RECURSIVE pair_dist_scan(_, _)
pair_dist_scan(dist, i) ==
    IF i >= 30 THEN RangeError
    ELSE LET max_dist == DIST_BASE[i] + 2^(DIST_BITS[i]) - 1
         IN  IF dist >= DIST_BASE[i] /\ dist <= max_dist
             THEN Mapped(i, DIST_BITS[i], dist - DIST_BASE[i])
             ELSE pair_dist_scan(dist, i + 1)

\* LZPair(dist, length): ValueError when either symbol is None.
LZPair(dist, length) ==
    LET l == pair_len_scan(length, 0)
        d == pair_dist_scan(dist, 0)
    IN  [ok |-> l.ok /\ d.ok, len |-> l, dist |-> d]

\* --- decoder side (Deflate._decode_length / _decode_distance).
NoValue == -1

RECURSIVE table_entry(_, _, _)
table_entry(table, code, k) ==
    IF k > Len(table) THEN <<>>
    ELSE IF table[k][1] = code THEN table[k]
    ELSE table_entry(table, code, k + 1)

\* Result: [err, val, pos]; val = NoValue stands for the None return, err names
\* the exception that leaves the function ("" when it returns).
Decoded(val, pos) == [err |-> "", val |-> val, pos |-> pos]
DecodeError(pos) == [err |-> "ValueError", val |-> NoValue, pos |-> pos]
DecodeEOF(pos) == [err |-> "EOFError", val |-> NoValue, pos |-> pos]

\* a _decode_length that takes the base and reads no extra bits.
_decode_length_nobits(bits, pos, length_code) ==
    IF length_code < 257 \/ length_code > 285 THEN Decoded(NoValue, pos)
    ELSE LET e == table_entry(length_table, length_code, 1)
         IN  IF e = <<>> THEN Decoded(NoValue, pos) ELSE Decoded(e[2], pos)

_decode_length(bits, pos, length_code) ==
    IF length_code < 257 \/ length_code > 285 THEN Decoded(NoValue, pos)
    ELSE LET e == table_entry(length_table, length_code, 1)
         IN  IF e = <<>> THEN Decoded(NoValue, pos)
             ELSE IF e[3] > 0
                  THEN LET r == read_bits_lsb(bits, pos, e[3])
                       IN  IF r.eof THEN DecodeEOF(pos)     \* EOFError propagates
                           ELSE Decoded(e[2] + r.val, r.pos)
                  ELSE Decoded(e[2], pos)

_decode_distance(bits, pos, distance_code) ==
    IF distance_code < 0 \/ distance_code > 29 THEN Decoded(NoValue, pos)
    ELSE LET e == table_entry(distance_table, distance_code, 1)
         IN  IF e = <<>> THEN Decoded(NoValue, pos)
             ELSE IF e[3] > 0
                  THEN LET r == read_bits_lsb(bits, pos, e[3])
                       IN  IF r.eof THEN Decoded(e[2], pos)  \* except EOFError: base
                           ELSE IF e[2] + r.val > MAX_WINDOW_SIZE
                                THEN DecodeError(r.pos)      \* ValueError
                                ELSE Decoded(e[2] + r.val, r.pos)
                  ELSE Decoded(e[2], pos)

\* ------------------------------------------------- Canonical Huffman Coder

\* Node(value, val_freq); an internal node has value None and two children.
Leaf(value, val_freq) == [leaf |-> TRUE, value |-> value, val_freq |-> val_freq]
Parent(l, r) ==
    [leaf |-> FALSE, val_freq |-> l.val_freq + r.val_freq, left |-> l, right |-> r]

\* Node.__lt__: nodes compare by frequency alone.
NodeLt(a, b) == a.val_freq < b.val_freq

\* heapq._siftdown(heap, startpos, pos); Python index p is sequence index p + 1.
RECURSIVE siftdown_loop(_, _, _, _)
siftdown_loop(heap, startpos, pos, newitem) ==
    IF pos > startpos /\ NodeLt(newitem, heap[((pos - 1) \div 2) + 1])
    THEN siftdown_loop([heap EXCEPT ![pos + 1] = heap[((pos - 1) \div 2) + 1]],
                       startpos, (pos - 1) \div 2, newitem)
    ELSE [heap EXCEPT ![pos + 1] = newitem]

_siftdown(heap, startpos, pos) == siftdown_loop(heap, startpos, pos, heap[pos + 1])

\* heapq._siftup(heap, pos): the smaller child bubbles up to a leaf, then _siftdown.
RECURSIVE siftup_loop(_, _, _, _)
siftup_loop(heap, startpos, pos, newitem) ==
    LET endpos == Len(heap)
        childpos == 2 * pos + 1
        rightpos == childpos + 1
        pick == IF rightpos < endpos /\ ~NodeLt(heap[childpos + 1], heap[rightpos + 1])
                THEN rightpos ELSE childpos
    IN  IF childpos < endpos
        THEN siftup_loop([heap EXCEPT ![pos + 1] = heap[pick + 1]], startpos, pick, newitem)
        ELSE _siftdown([heap EXCEPT ![pos + 1] = newitem], startpos, pos)

_siftup(heap, pos) == siftup_loop(heap, pos, pos, heap[pos + 1])

\* heapq.heapify: _siftup for i = n//2 - 1 down to 0.
RECURSIVE heapify_from(_, _)
heapify_from(x, i) == IF i < 0 THEN x ELSE heapify_from(_siftup(x, i), i - 1)
heapify(x) == heapify_from(x, (Len(x) \div 2) - 1)

\* heapq.heappop: [item, heap].
heappop(heap) ==
    LET lastelt == heap[Len(heap)]
        rest == SubSeq(heap, 1, Len(heap) - 1)
    IN  IF rest # <<>>
        THEN [item |-> rest[1], heap |-> _siftup([rest EXCEPT ![1] = lastelt], 0)]
        ELSE [item |-> lastelt, heap |-> rest]

\* heapq.heappush.
heappush(heap, item) == _siftdown(Append(heap, item), 0, Len(heap))

\* build_from_freq, step 3: merge the two smallest nodes until one is left.
RECURSIVE merge_nodes(_)
merge_nodes(nodes) ==
    IF Len(nodes) > 1
    THEN LET p1 == heappop(nodes)
             p2 == heappop(p1.heap)
         IN  merge_nodes(heappush(p2.heap, Parent(p1.item, p2.item)))
    ELSE nodes

\* HuffmanTree.codes_generation: preorder, "0" to the left, "1" to the right.
\* res_codes is the dict in insertion order, a sequence of <<symbol, code>>;
\* every value sits on one leaf, so setdefault always inserts.
RECURSIVE codes_generation(_, _)
codes_generation(node, curr_code) ==
    IF node.leaf THEN << <<node.value, curr_code>> >>
    ELSE codes_generation(node.left, Append(curr_code, 0))
         \o codes_generation(node.right, Append(curr_code, 1))

\* HuffmanTree.build_from_freq(freq_dict); freq_dict is the dict in insertion
\* order, a sequence of <<symbol, frequency>>. Result: res_codes.
\* nodes = [Node(value, freq) for value, freq in freq_dict.items()].
RECURSIVE leaf_nodes(_, _)
leaf_nodes(freq_dict, k) ==
    IF k > Len(freq_dict) THEN <<>>
    ELSE <<Leaf(freq_dict[k][1], freq_dict[k][2])>> \o leaf_nodes(freq_dict, k + 1)

build_from_freq(freq_dict) ==
    LET root == merge_nodes(heapify(leaf_nodes(freq_dict, 1)))[1]
    IN  codes_generation(root, <<>>)

\* sort(key = (length, symbol)) of <<symbol, length>> pairs with distinct symbols
\* 0 .. top; length_of[symbol + 1] is the symbol's length, Absent if it has no
\* pair. Result: lengths in ascending order, and for each length the symbols
\* ascending.
Absent == -1

\* the sequence with the elements of s, held as an explicit tuple.
Tuple(s) == <<>> \o s

SetMax(S) == CHOOSE m \in S : \A x \in S : x <= m

\* (the scans and loops below split their range in halves, which keeps the
\* evaluation shallow on the 288-symbol alphabet; the order of the results and
\* of the assignments is that of the sequential loop.)
RECURSIVE scan_symbols(_, _, _, _)
scan_symbols(length_of, length, lo, hi) ==
    IF lo > hi THEN <<>>
    ELSE IF lo = hi
         THEN (IF length_of[lo + 1] = length THEN << <<lo, length>> >> ELSE <<>>)
         ELSE LET mid == (lo + hi) \div 2
              IN  scan_symbols(length_of, length, lo, mid)
                  \o scan_symbols(length_of, length, mid + 1, hi)

RECURSIVE scan_lengths(_, _, _, _)
scan_lengths(length_of, length, maxlen, top) ==
    IF length > maxlen THEN <<>>
    ELSE scan_symbols(length_of, length, 0, top)
         \o scan_lengths(length_of, length + 1, maxlen, top)

sort_len_sym(length_of, top) ==
    scan_lengths(length_of, 0, SetMax({length_of[k] : k \in 1..(top + 1)}), top)

\* a dict built by successive assignments d[key] = value, given as a sequence of
\* <<key, value>>: the last assignment to a key stays.
RECURSIVE dict_of(_, _, _)
dict_of(items, lo, hi) ==
    IF lo > hi THEN << >>
    ELSE IF lo = hi THEN (items[lo][1] :> items[lo][2])
         ELSE LET mid == (lo + hi) \div 2
              IN  dict_of(items, mid + 1, hi) @@ dict_of(items, lo, mid)

\* HuffmanTree.make_canonical, the loop over lengths[lo..hi] entered with (code,
\* prev_len): code <<= length - prev_len; canon_codes[sym] = (code, length);
\* code += 1; prev_len = length. Result: the assignments and the state left.
RECURSIVE canon_loop(_, _, _, _, _)
canon_loop(lengths, lo, hi, code, prev_len) ==
    IF lo > hi THEN [items |-> <<>>, code |-> code, prev_len |-> prev_len]
    ELSE IF lo = hi
         THEN LET sym == lengths[lo][1]
                  length == lengths[lo][2]
                  shifted == code * 2^(length - prev_len)
              IN  [items |-> << <<sym, <<shifted, length>>>> >>,
                   code |-> shifted + 1, prev_len |-> length]
         ELSE LET mid == (lo + hi) \div 2
                  first == canon_loop(lengths, lo, mid, code, prev_len)
                  rest == canon_loop(lengths, mid + 1, hi, first.code, first.prev_len)
              IN  [items |-> first.items \o rest.items,
                   code |-> rest.code, prev_len |-> rest.prev_len]

\* a make_canonical that counts the codes up without the shift at a longer length.
make_canonical_no_shift(res_codes) ==
    LET keys == {res_codes[k][1] : k \in 1..Len(res_codes)}
        top == SetMax(keys)
        length_of == Tuple([j \in 1..(top + 1) |->
                        IF (j - 1) \in keys
                        THEN Len(res_codes[CHOOSE k \in 1..Len(res_codes) : res_codes[k][1] = j - 1][2])
                        ELSE Absent])
        lengths == sort_len_sym(length_of, top)
        assigned == Tuple([k \in 1..Len(lengths) |->
                             <<lengths[k][1], <<k - 1, lengths[k][2]>>>>])
    IN  dict_of(assigned, 1, Len(assigned))

\* a make_canonical whose first code is 1 instead of 0.
make_canonical_from_one(res_codes) ==
    LET keys == {res_codes[k][1] : k \in 1..Len(res_codes)}
        top == SetMax(keys)
        length_of == Tuple([j \in 1..(top + 1) |->
                        IF (j - 1) \in keys
                        THEN Len(res_codes[CHOOSE k \in 1..Len(res_codes) : res_codes[k][1] = j - 1][2])
                        ELSE Absent])
        lengths == sort_len_sym(length_of, top)
        assigned == canon_loop(lengths, 1, Len(lengths), 1, lengths[1][2]).items
    IN  dict_of(assigned, 1, Len(assigned))

\* HuffmanTree.make_canonical: canon_codes, symbol -> <<code, length>>.
make_canonical(res_codes) ==
    LET keys == {res_codes[k][1] : k \in 1..Len(res_codes)}
        top == SetMax(keys)
        length_of == Tuple([j \in 1..(top + 1) |->
                        IF (j - 1) \in keys
                        THEN Len(res_codes[CHOOSE k \in 1..Len(res_codes) : res_codes[k][1] = j - 1][2])
                        ELSE Absent])
        lengths == sort_len_sym(length_of, top)
        assigned == canon_loop(lengths, 1, Len(lengths), 0, lengths[1][2]).items
    IN  dict_of(assigned, 1, Len(assigned))

\* Deflate._build_huffman_tree_from_lengths, the loop: current_code <<= length -
\* current_length; decode_tree[(length, current_code)] = symbol; current_code += 1;
\* current_length = length.
RECURSIVE decode_tree_loop(_, _, _, _, _)
decode_tree_loop(symbols_with_lengths, lo, hi, current_code, current_length) ==
    IF lo > hi
    THEN [items |-> <<>>, current_code |-> current_code, current_length |-> current_length]
    ELSE IF lo = hi
         THEN LET symbol == symbols_with_lengths[lo][1]
                  length == symbols_with_lengths[lo][2]
                  shifted == current_code * 2^(length - current_length)
              IN  [items |-> << << <<length, shifted>>, symbol >> >>,
                   current_code |-> shifted + 1, current_length |-> length]
         ELSE LET mid == (lo + hi) \div 2
                  first == decode_tree_loop(symbols_with_lengths, lo, mid,
                                            current_code, current_length)
                  rest == decode_tree_loop(symbols_with_lengths, mid + 1, hi,
                                           first.current_code, first.current_length)
              IN  [items |-> first.items \o rest.items,
                   current_code |-> rest.current_code,
                   current_length |-> rest.current_length]

\* Deflate._build_huffman_tree_from_lengths(lengths) (the same text in
\* src/deflate.py and src/algorithms/deflate.py): the decode dict
\* {(length, code): symbol}; symbols of length 0 are left out; the (length,
\* symbol) tuples are sorted, i.e. by length and then by symbol.
_build_huffman_tree_from_lengths(lengths) ==
    LET length_of == Tuple([j \in 1..Len(lengths) |->
                        IF lengths[j] > 0 THEN lengths[j] ELSE Absent])
        symbols_with_lengths ==
            IF lengths = <<>> THEN <<>> ELSE sort_len_sym(length_of, Len(lengths) - 1)
    IN  IF symbols_with_lengths = <<>> THEN << >>
        ELSE LET entries == decode_tree_loop(symbols_with_lengths, 1,
                                             Len(symbols_with_lengths), 0,
                                             symbols_with_lengths[1][2]).items
             IN  dict_of(entries, 1, Len(entries))

\* the fixed code lengths of RFC 1951: [8]*144 + [9]*112 + [7]*24 + [8]*8.
fixed_lit_len_lengths ==
    Tuple([k \in 1..288 |-> IF k <= 144 THEN 8 ELSE IF k <= 256 THEN 9 ELSE IF k <= 280 THEN 7 ELSE 8])

\* [5] * 32
fixed_dist_lengths == Tuple([k \in 1..32 |-> 5])

\* _get_fixed_lit_len_encoding_map / _get_fixed_dist_encoding_map, the loop:
\* current_code <<= length - current_length; encoding_map[symbol] = (current_code,
\* length); current_code += 1; current_length = length.
RECURSIVE encoding_map_loop(_, _, _, _, _)
encoding_map_loop(symbols_with_lengths, lo, hi, current_code, current_length) ==
    IF lo > hi
    THEN [items |-> <<>>, current_code |-> current_code, current_length |-> current_length]
    ELSE IF lo = hi
         THEN LET symbol == symbols_with_lengths[lo][1]
                  length == symbols_with_lengths[lo][2]
                  shifted == current_code * 2^(length - current_length)
              IN  [items |-> << <<symbol, <<shifted, length>>>> >>,
                   current_code |-> shifted + 1, current_length |-> length]
         ELSE LET mid == (lo + hi) \div 2
                  first == encoding_map_loop(symbols_with_lengths, lo, mid,
                                             current_code, current_length)
                  rest == encoding_map_loop(symbols_with_lengths, mid + 1, hi,
                                            first.current_code, first.current_length)
              IN  [items |-> first.items \o rest.items,
                   current_code |-> rest.current_code,
                   current_length |-> rest.current_length]

\* Deflate._get_fixed_lit_len_encoding_map: {symbol: (code, code_length)};
\* full_lengths[256] = 7 repeats the entry the list already has.
_get_fixed_lit_len_encoding_map ==
    LET full_lengths == Tuple([k \in 1..288 |-> IF k - 1 = 256 THEN 7 ELSE fixed_lit_len_lengths[k]])
        symbols_with_lengths == sort_len_sym(full_lengths, 287)
        entries == encoding_map_loop(symbols_with_lengths, 1, Len(symbols_with_lengths),
                                     0, symbols_with_lengths[1][2]).items
    IN  dict_of(entries, 1, Len(entries))

\* Deflate._get_fixed_dist_encoding_map.
_get_fixed_dist_encoding_map ==
    LET symbols_with_lengths == sort_len_sym(fixed_dist_lengths, 31)
        entries == encoding_map_loop(symbols_with_lengths, 1, Len(symbols_with_lengths),
                                     0, symbols_with_lengths[1][2]).items
    IN  dict_of(entries, 1, Len(entries))

\* Deflate._create_fixed_huffman_lit_len_tree / _create_fixed_huffman_dist_tree.
_create_fixed_huffman_lit_len_tree == _build_huffman_tree_from_lengths(fixed_lit_len_lengths)
_create_fixed_huffman_dist_tree == _build_huffman_tree_from_lengths(fixed_dist_lengths)

\* ------------------------------------------------- Match Finder (LZ77)

\* LZ77.__init__: window_size = min(window_size, MAX_WINDOW_SIZE).
lz77_window_size(window_size) == Min(window_size, MAX_WINDOW_SIZE)

NoMatch == [found |-> FALSE, distance |-> 0, length |-> 0]
Match(distance, length) == [found |-> TRUE, distance |-> distance, length |-> length]

\* data[from:to] of a bytes object (0-based, end exclusive).
slice(data, from, to) == SubSeq(data, from + 1, Min(to, Len(data)))

\* hash_table[hash(substring)].append(position); the hash of a 3-byte string is
\* taken to be the string itself.
hash_append(hash_table, key, position) ==
    IF key \in DOMAIN hash_table
    THEN [hash_table EXCEPT ![key] = Append(@, position)]
    ELSE (key :> <<position>>) @@ hash_table

\* the inner while loop without its "match_length < lookahead_buffer_size".
match_length_unbounded(data, candidate_position, current_position) ==
    LET limit == Min(Len(data) - current_position, current_position - candidate_position)
        differ == {m \in 0..(limit - 1) :
                     data[candidate_position + m + 1] # data[current_position + m + 1]}
    IN  IF limit <= 0 THEN 0
        ELSE IF differ = {} THEN limit
        ELSE CHOOSE m \in differ : \A x \in differ : m <= x

\* the inner while loop without its "candidate_position + match_length <
\* current_position": the match runs on into the bytes it is coding.
match_length_overlapping(data, candidate_position, current_position) ==
    LET limit == Min(Len(data) - current_position, lookahead_buffer_size)
        differ == {m \in 0..(limit - 1) :
                     data[candidate_position + m + 1] # data[current_position + m + 1]}
    IN  IF limit <= 0 THEN 0
        ELSE IF differ = {} THEN limit
        ELSE CHOOSE m \in differ : \A x \in differ : m <= x

\* find_match, the inner while loop: match_length grows while the byte is inside
\* the data, the candidate's byte lies before current_position, match_length is
\* below lookahead_buffer_size and the two bytes agree.
match_length_at(data, candidate_position, current_position) ==
    LET limit == Min(Min(Len(data) - current_position,
                         current_position - candidate_position),
                     lookahead_buffer_size)
        differ == {m \in 0..(limit - 1) :
                     data[candidate_position + m + 1] # data[current_position + m + 1]}
    IN  IF limit <= 0 THEN 0
        ELSE IF differ = {} THEN limit
        ELSE CHOOSE m \in differ : \A x \in differ : m <= x

\* src/algorithms/deflate_utils/LZ77_deflate.py, find_match: the loop over
\* valid_candidates; best = <<best_match_distance, best_match_length>>; the loop
\* breaks when a match of lookahead_buffer_size bytes is found.
RECURSIVE alg_scan_candidates(_, _, _, _, _)
alg_scan_candidates(data, current_position, valid_candidates, k, best) ==
    IF k > Len(valid_candidates) THEN best
    ELSE LET candidate_position == valid_candidates[k]
             distance == current_position - candidate_position
             match_length == match_length_at(data, candidate_position, current_position)
         IN  IF distance < 1
             THEN alg_scan_candidates(data, current_position, valid_candidates, k + 1, best)
             ELSE IF match_length > best[2]
                  THEN IF match_length = lookahead_buffer_size
                       THEN <<distance, match_length>>
                       ELSE alg_scan_candidates(data, current_position, valid_candidates,
                                                k + 1, <<distance, match_length>>)
                  ELSE alg_scan_candidates(data, current_position, valid_candidates,
                                           k + 1, best)

\* src/algorithms/deflate_utils/LZ77_deflate.py, LZ77.find_match.
\* Result: [match, hash_table].
alg_find_match(data, current_position, hash_table, window_size) ==
    IF current_position >= Len(data)
    THEN [match |-> NoMatch, hash_table |-> hash_table]
    ELSE LET added == IF current_position >= 2
                      THEN hash_append(hash_table,
                                       slice(data, current_position - 2, current_position + 1),
                                       current_position - 2)
                      ELSE hash_table
             hash_key_to_find == slice(data, current_position, current_position + 3)
         IN  IF current_position + 2 < Len(data) /\ hash_key_to_find \in DOMAIN added
             THEN LET min_valid_candidate_pos == Max(0, current_position - (window_size - 1))
                      valid_candidates == SelectSeq(added[hash_key_to_find],
                                              LAMBDA pos : pos >= min_valid_candidate_pos)
                  IN  IF valid_candidates = <<>>
                      THEN [match |-> NoMatch,
                            hash_table |-> [key \in DOMAIN added \ {hash_key_to_find} |-> added[key]]]
                      ELSE LET best == alg_scan_candidates(data, current_position,
                                                           valid_candidates, 1, <<0, 0>>)
                           IN  [match |-> IF best[2] >= 3 THEN Match(best[1], best[2])
                                          ELSE NoMatch,
                                hash_table |-> [added EXCEPT ![hash_key_to_find] = valid_candidates]]
             ELSE [match |-> NoMatch, hash_table |-> added]

\* src/LZ77.py, find_match: the loop over hash_table[hash_key]; candidates farther
\* than window_size - 1 are skipped, the list itself is left as it is.
RECURSIVE src_scan_candidates(_, _, _, _, _, _)
src_scan_candidates(data, current_position, candidates, k, best, window_size) ==
    IF k > Len(candidates) THEN best
    ELSE LET candidate_position == candidates[k]
             distance == current_position - candidate_position
             match_length == match_length_at(data, candidate_position, current_position)
         IN  IF distance > window_size - 1
             THEN src_scan_candidates(data, current_position, candidates, k + 1, best,
                                      window_size)
             ELSE IF match_length > best[2]
                  THEN src_scan_candidates(data, current_position, candidates, k + 1,
                                           <<distance, match_length>>, window_size)
                  ELSE src_scan_candidates(data, current_position, candidates, k + 1, best,
                                           window_size)

\* src/LZ77.py, LZ77.find_match. Result: [match, hash_table].
src_find_match(data, current_position, hash_table, window_size) ==
    IF current_position >= Len(data)
    THEN [match |-> NoMatch, hash_table |-> hash_table]
    ELSE LET added == IF current_position >= 2
                      THEN hash_append(hash_table,
                                       slice(data, current_position - 2, current_position + 1),
                                       current_position - 2)
                      ELSE hash_table
             hash_key == slice(data, current_position, current_position + 3)
         IN  IF current_position + 2 < Len(data) /\ hash_key \in DOMAIN added
             THEN LET best == src_scan_candidates(data, current_position, added[hash_key],
                                                  1, <<0, 0>>, window_size)
                  IN  [match |-> IF best[2] >= 3 THEN Match(best[1], best[2]) ELSE NoMatch,
                       hash_table |-> added]
             ELSE [match |-> NoMatch, hash_table |-> added]

\* tokens: <<"lit", byte>> and <<"match", dist, length>>.
Lit(byte) == <<"lit", byte>>
MatchToken(dist, length) == <<"match", dist, length>>

\* LZ77_deflate.LZ77.compress, one turn of "while i < len(data)" on the state
\* [data, window_size, i, hash_table, tokens].
alg_compress_step(st) ==
    LET r == alg_find_match(st.data, st.i, st.hash_table, st.window_size)
        byte == st.data[st.i + 1]
        literal == [st EXCEPT !.hash_table = r.hash_table,
                              !.tokens = Append(@, Lit(byte)), !.i = @ + 1]
    IN  IF r.match.found
        THEN IF r.match.distance > st.window_size THEN literal
             ELSE IF r.match.distance > 0 /\ r.match.distance <= st.i
                  THEN [st EXCEPT !.hash_table = r.hash_table,
                                  !.tokens = Append(@, MatchToken(r.match.distance,
                                                                  r.match.length)),
                                  !.i = @ + r.match.length]
                  ELSE literal
        ELSE literal

\* src/LZ77.py, LZ77.compress, one turn of "while i < len(data)".
src_compress_step(st) ==
    LET r == src_find_match(st.data, st.i, st.hash_table, st.window_size)
        byte == st.data[st.i + 1]
    IN  IF r.match.found
        THEN [st EXCEPT !.hash_table = r.hash_table,
                        !.tokens = Append(@, MatchToken(r.match.distance, r.match.length)),
                        !.i = @ + r.match.length]
        ELSE [st EXCEPT !.hash_table = r.hash_table,
                        !.tokens = Append(@, Lit(byte)), !.i = @ + 1]

\* the whole tokenizing loop of LZ77_deflate.LZ77.compress.
RECURSIVE alg_tokenize(_)
alg_tokenize(st) ==
    IF st.i < Len(st.data) THEN alg_tokenize(alg_compress_step(st)) ELSE st

\* "for t in tokens": the lit/len symbols with their extra bits, one per token, and
\* the distance codes with their extra bits, one per match. map_length and
\* map_distance are those of the module (they differ between the two).
map_length_of(mod, length) ==
    IF mod = "alg" THEN alg_map_length(length) ELSE src_map_length(length)

map_distance_of(mod, dist) ==
    IF mod = "alg" THEN alg_map_distance(dist) ELSE src_map_distance(dist)

token_symbols(tokens, mod) ==
    Tuple([k \in 1..Len(tokens) |->
             IF tokens[k][1] = "lit" THEN tokens[k][2]
             ELSE map_length_of(mod, tokens[k][3]).code])

token_length_extra(tokens, mod) ==
    Tuple([k \in 1..Len(tokens) |->
             IF tokens[k][1] = "lit" THEN <<0, 0>>
             ELSE <<map_length_of(mod, tokens[k][3]).bits,
                    map_length_of(mod, tokens[k][3]).val>>])

token_distances(tokens, mod) ==
    LET matches == SelectSeq(tokens, LAMBDA t : t[1] = "match")
    IN  Tuple([k \in 1..Len(matches) |-> map_distance_of(mod, matches[k][2]).code])

token_distance_extra(tokens, mod) ==
    LET matches == SelectSeq(tokens, LAMBDA t : t[1] = "match")
    IN  Tuple([k \in 1..Len(matches) |->
                 <<map_distance_of(mod, matches[k][2]).bits,
                   map_distance_of(mod, matches[k][2]).val>>])

\* LZ77_deflate.LZ77.compress returns
\* (symbol_list, length_extra_bits, distance_list, distance_extra_bits).
alg_compress_result(tokens) ==
    << token_symbols(tokens, "alg"),
       token_length_extra(tokens, "alg"),
       token_distances(tokens, "alg"),
       token_distance_extra(tokens, "alg") >>

\* src/LZ77.py LZ77.compress appends the end-of-block marker and returns
\* (symbol_list, distance_list, symbol_extra_bits_list, distance_extra_bits_list).
\* A ValueError of map_length / map_distance leaves compress: <<"ValueError">>.
src_compress_result(tokens) ==
    IF \E k \in 1..Len(tokens) :
          /\ tokens[k][1] = "match"
          /\ ~src_map_length(tokens[k][3]).ok \/ ~src_map_distance(tokens[k][2]).ok
    THEN <<"ValueError">>
    ELSE << Append(token_symbols(tokens, "src"), 256),
            token_distances(tokens, "src"),
            Append(token_length_extra(tokens, "src"), <<0, 0>>),
            token_distance_extra(tokens, "src") >>

\* ------------------------------------------------- Block Encoder (compress_file)

BLOCK_SIZE == 16384

EmptyBlock == [symbols |-> <<>>, length_extra |-> <<>>, distances |-> <<>>, dist_extra |-> <<>>]

\* compress_file, lines 187-190: the end-of-block symbol closes the block.
close_block(current_block) ==
    [current_block EXCEPT !.symbols = Append(@, 256), !.length_extra = Append(@, <<0, 0>>)]

\* compress_file, step 2, "for i in range(len(symbol_list))" from index i on.
\* Result: [err, blocks]; err is the IndexError of a length code without a
\* distance. block_size stands for BLOCK_SIZE.
RECURSIVE partition_loop(_, _, _, _, _, _, _, _, _)
partition_loop(symbol_list, length_extra_bits, distance_list, distance_extra_bits, i, current_block, dist_list_idx, blocks, block_size) ==
    IF i >= Len(symbol_list) THEN [err |-> "", blocks |-> blocks]
    ELSE LET sym == symbol_list[i + 1]
             is_len == 257 <= sym /\ sym <= 285
             with_sym == [current_block EXCEPT
                            !.symbols = Append(@, sym),
                            !.length_extra = Append(@, length_extra_bits[i + 1])]
         IN  IF is_len /\ (dist_list_idx >= Len(distance_list)
                           \/ dist_list_idx >= Len(distance_extra_bits))
             THEN [err |-> "IndexError", blocks |-> blocks]
             ELSE LET with_dist ==
                          IF is_len
                          THEN [with_sym EXCEPT
                                  !.distances = Append(@, distance_list[dist_list_idx + 1]),
                                  !.dist_extra = Append(@, distance_extra_bits[dist_list_idx + 1])]
                          ELSE with_sym
                      next_idx == IF is_len THEN dist_list_idx + 1 ELSE dist_list_idx
                  IN  IF Len(with_dist.symbols) >= block_size \/ i = Len(symbol_list) - 1
                      THEN partition_loop(symbol_list, length_extra_bits, distance_list,
                                          distance_extra_bits, i + 1, EmptyBlock, next_idx,
                                          Append(blocks, close_block(with_dist)), block_size)
                      ELSE partition_loop(symbol_list, length_extra_bits, distance_list,
                                          distance_extra_bits, i + 1, with_dist, next_idx,
                                          blocks, block_size)

partition(lists, block_size) ==
    partition_loop(lists[1], lists[2], lists[3], lists[4], 0, EmptyBlock, 0, <<>>, block_size)

\* compress_file, lines 210-214: the extension header.
RECURSIVE write_ext_bytes(_, _, _)
write_ext_bytes(bits, ext_bytes, k) ==
    IF k > Len(ext_bytes) THEN bits
    ELSE write_ext_bytes(write_bits_lsb(bits, ext_bytes[k], 8), ext_bytes, k + 1)

write_ext_header(ext_bytes) ==
    write_ext_bytes(write_bits_lsb(<<>>, Len(ext_bytes), 8), ext_bytes, 1)

\* an is_final that forgets the block index.
final_on_every_block(bfinal, block_index, nblocks) == bfinal = 1

\* compress_file, line 218: is_final = bfinal == 1 and block_index == len(blocks) - 1.
is_final_flag(bfinal, block_index, nblocks) == bfinal = 1 /\ block_index = nblocks - 1

\* a block header with the type field of a dynamic block.
write_block_header_dynamic_type(bits, is_final) ==
    write_bits_lsb(write_bits_lsb(bits, IF is_final THEN 1 ELSE 0, 1), 2, 2)

\* compress_file, lines 221-222: BFINAL, then BTYPE=01 (static).
write_block_header(bits, is_final) ==
    write_bits_lsb(write_bits_lsb(bits, IF is_final THEN 1 ELSE 0, 1), 1, 2)

\* compress_file, lines 229-257, "for sym in block['symbols']": one turn on the
\* state [err, bits, k, d] (k symbols written, d distances consumed): Huffman code
\* MSB first, extra bits LSB first, and for a length code the distance code with
\* its extra bits. err is the ValueError of a symbol without a code.
write_symbol(st, block, lit_len_codes, dist_codes) ==
    LET sym == block.symbols[st.k + 1]
    IN  IF sym \notin DOMAIN lit_len_codes THEN [st EXCEPT !.err = "ValueError"]
        ELSE LET code == lit_len_codes[sym]
                 eb == block.length_extra[st.k + 1]
                 b1 == write_bits_msb(st.bits, code[1], code[2])
                 b2 == IF eb[1] > 0 THEN write_bits_lsb(b1, eb[2], eb[1]) ELSE b1
             IN  IF 257 <= sym /\ sym <= 285
                 THEN LET dcode == block.distances[st.d + 1]
                      IN  IF dcode \notin DOMAIN dist_codes
                          THEN [st EXCEPT !.bits = b2, !.err = "ValueError"]
                          ELSE LET dc == dist_codes[dcode]
                                   ebd == block.dist_extra[st.d + 1]
                                   b3 == write_bits_msb(b2, dc[1], dc[2])
                                   b4 == IF ebd[1] > 0
                                         THEN write_bits_lsb(b3, ebd[2], ebd[1])
                                         ELSE b3
                               IN  [err |-> "", bits |-> b4, k |-> st.k + 1, d |-> st.d + 1]
                 ELSE [err |-> "", bits |-> b2, k |-> st.k + 1, d |-> st.d]

\* the whole loop. Result: [err, bits, k, d].
RECURSIVE write_block_data(_, _, _, _)
write_block_data(st, block, lit_len_codes, dist_codes) ==
    IF st.err # "" \/ st.k >= Len(block.symbols) THEN st
    ELSE write_block_data(write_symbol(st, block, lit_len_codes, dist_codes),
                          block, lit_len_codes, dist_codes)

\* compress_file, one turn of "for block_index, block in enumerate(blocks)".
write_fixed_block(bits, block, is_final) ==
    write_block_data([err |-> "", bits |-> write_block_header(bits, is_final),
                      k |-> 0, d |-> 0],
                     block, _get_fixed_lit_len_encoding_map, _get_fixed_dist_encoding_map)

\* BitWriter.flush_to_file: zero bits up to a byte boundary, then bitarray.tofile
\* (big-endian bit order inside each byte).
tofile(bits) ==
    Tuple([j \in 1..(Len(bits) \div 8) |->
             bits[8 * j - 7] * 128 + bits[8 * j - 6] * 64 + bits[8 * j - 5] * 32
             + bits[8 * j - 4] * 16 + bits[8 * j - 3] * 8 + bits[8 * j - 2] * 4
             + bits[8 * j - 1] * 2 + bits[8 * j]])

flush_to_file(bits) == tofile(byte_align_write(bits))

\* BitReader.__init__: bitarray.fromfile, the bits of each byte from the top down.
fromfile(bytes) ==
    Tuple([k \in 1..(8 * Len(bytes)) |->
             (bytes[((k - 1) \div 8) + 1] \div 2^(7 - ((k - 1) % 8))) % 2])

\* ------------------------------------------------- Block Decoder (decompress_file)

\* Deflate._decode_huffman_symbol, the "while code_len <= max_code_len" loop:
\* [sym, pos]; sym = NoValue is the None return (end of the bits, or no code of
\* max_code_len bits).
RECURSIVE decode_symbol_loop(_, _, _, _, _, _)
decode_symbol_loop(bits, pos, tree, code, code_len, max_code_len) ==
    IF code_len > max_code_len THEN [sym |-> NoValue, pos |-> pos]
    ELSE LET r == read_bit(bits, pos)
             c == code * 2 + r.val
         IN  IF r.eof THEN [sym |-> NoValue, pos |-> pos]
             ELSE IF <<code_len + 1, c>> \in DOMAIN tree
                  THEN [sym |-> tree[<<code_len + 1, c>>], pos |-> r.pos]
                  ELSE IF code_len + 1 = max_code_len
                       THEN [sym |-> NoValue, pos |-> r.pos]
                       ELSE decode_symbol_loop(bits, r.pos, tree, c, code_len + 1,
                                               max_code_len)

_decode_huffman_symbol(bits, pos, tree) ==
    decode_symbol_loop(bits, pos, tree, 0, 0,
                       IF DOMAIN tree = {} THEN 0 ELSE SetMax({key[1] : key \in DOMAIN tree}))

\* _decode_huffman_data, "for i in range(length): output_buffer.append(
\* output_buffer[-distance])".
RECURSIVE copy_match(_, _, _)
copy_match(output_buffer, distance, length) ==
    IF length <= 0 THEN output_buffer
    ELSE IF length = 1
         THEN Append(output_buffer, output_buffer[Len(output_buffer) - distance + 1])
         ELSE LET half == length \div 2
                  first == copy_match(output_buffer, distance, half)
              IN  copy_match(first, distance, length - half)

\* Deflate._decode_huffman_data, one turn of the "while True" loop on the state
\* [err, done, pos, out]: done when the loop breaks (end-of-block symbol, or a None
\* symbol); err is "ValueError" / "EOFError" when that exception leaves the loop.
decode_turn(st, bits, lit_len_tree, dist_tree) ==
    LET s == _decode_huffman_symbol(bits, st.pos, lit_len_tree)
    IN  IF s.sym = NoValue THEN [st EXCEPT !.pos = s.pos, !.done = TRUE]
        ELSE IF s.sym < 256 THEN [st EXCEPT !.pos = s.pos, !.out = Append(@, s.sym)]
        ELSE IF s.sym = 256 THEN [st EXCEPT !.pos = s.pos, !.done = TRUE]
        ELSE LET l == _decode_length(bits, s.pos, s.sym)
             IN  IF l.err # "" THEN [st EXCEPT !.pos = l.pos, !.err = l.err]
                 ELSE IF l.val = NoValue THEN [st EXCEPT !.pos = l.pos, !.err = "ValueError"]
                 ELSE LET dsym == _decode_huffman_symbol(bits, l.pos, dist_tree)
                      IN  IF dsym.sym = NoValue
                          THEN [st EXCEPT !.pos = dsym.pos, !.err = "ValueError"]
                          ELSE LET dd == _decode_distance(bits, dsym.pos, dsym.sym)
                               IN  IF dd.err # ""
                                   THEN [st EXCEPT !.pos = dd.pos, !.err = dd.err]
                                   ELSE IF dd.val = NoValue \/ dd.val > Len(st.out)
                                        THEN [st EXCEPT !.pos = dd.pos, !.err = "ValueError"]
                                        ELSE [st EXCEPT !.pos = dd.pos,
                                                        !.out = copy_match(@, dd.val, l.val)]

\* the whole loop. Result: [err, done, pos, out].
RECURSIVE decode_loop(_, _, _, _)
decode_loop(st, bits, lit_len_tree, dist_tree) ==
    IF st.err # "" \/ st.done THEN st
    ELSE decode_loop(decode_turn(st, bits, lit_len_tree, dist_tree),
                     bits, lit_len_tree, dist_tree)

_decode_huffman_data(bits, pos, lit_len_tree, dist_tree, output_buffer) ==
    decode_loop([err |-> "", done |-> FALSE, pos |-> pos, out |-> output_buffer],
                bits, lit_len_tree, dist_tree)

\* decompress_file, BTYPE=00: "for _ in range(len_bytes): reader.read_bits_lsb(8)".
skip_stored(bits, pos, len_bytes) ==
    IF pos + 8 * len_bytes > Len(bits)
    THEN [eof |-> TRUE, pos |-> pos + 8 * ((Len(bits) - pos) \div 8)]
    ELSE [eof |-> FALSE, pos |-> pos + 8 * len_bytes]

\* decompress_file, one turn of "while not is_final_block" on [bits, pos,
\* decoded_data, is_final_block]. Result: the state with exit = "" (the loop
\* condition is tested again), "break" (EOFError) or "ValueError" (raised).
decompress_block(st) ==
    LET b == read_bit(st.bits, st.pos)
        final == (b.val = 1)
        t == read_bits_lsb(st.bits, b.pos, 2)
        seen == [st EXCEPT !.is_final_block = final, !.pos = t.pos,
                           !.headers = Append(@, <<b.val, t.val>>)]
    IN  IF b.eof THEN [st EXCEPT !.exit = "break"]
        ELSE IF t.eof THEN [st EXCEPT !.is_final_block = final, !.pos = b.pos,
                                      !.exit = "break"]
        ELSE IF t.val = 0
             THEN LET p0 == byte_align_read(t.pos)
                      len_bytes == read_bits_lsb(st.bits, p0, 16)
                      nlen_bytes == read_bits_lsb(st.bits, len_bytes.pos, 16)
                      skipped == skip_stored(st.bits, nlen_bytes.pos, len_bytes.val)
                  IN  IF len_bytes.eof THEN [seen EXCEPT !.pos = p0, !.exit = "break"]
                      ELSE IF nlen_bytes.eof
                           THEN [seen EXCEPT !.pos = len_bytes.pos, !.exit = "break"]
                      ELSE [seen EXCEPT !.pos = skipped.pos,
                                        !.exit = IF skipped.eof THEN "break" ELSE ""]
        ELSE IF t.val = 1
             THEN LET r == _decode_huffman_data(st.bits, t.pos,
                                                _create_fixed_huffman_lit_len_tree,
                                                _create_fixed_huffman_dist_tree,
                                                st.decoded_data)
                  IN  [seen EXCEPT !.pos = r.pos, !.decoded_data = r.out,
                                   !.exit = IF r.err = "EOFError" THEN "break" ELSE r.err]
        ELSE [seen EXCEPT !.exit = "ValueError"]

\* ------------------------------------- Dynamic Block Encoder (src/deflate.py)

\* collections.Counter(seq): the distinct elements in the order of their first
\* occurrence, each with its count, as a sequence of <<element, count>>.
RECURSIVE counter_range(_, _, _)
counter_range(seq, lo, hi) ==
    IF lo > hi THEN <<>>
    ELSE IF lo = hi
         THEN (IF \A j \in 1..(lo - 1) : seq[j] # seq[lo]
               THEN << <<seq[lo], Cardinality({j \in 1..Len(seq) : seq[j] = seq[lo]})>> >>
               ELSE <<>>)
         ELSE LET mid == (lo + hi) \div 2
              IN  counter_range(seq, lo, mid) \o counter_range(seq, mid + 1, hi)

Counter(seq) == counter_range(seq, 1, Len(seq))

\* a HuffmanTree built for a histogram: HuffmanTree.build_from_freq(freq) followed
\* by make_canonical(); canon_codes of the tree.
tree_canon_codes(freq) == make_canonical(build_from_freq(freq))

\* canon_codes.get(i, (0, 0))[1]
code_length_of(canon_codes, i) ==
    IF i \in DOMAIN canon_codes THEN canon_codes[i][2] ELSE 0

\* write_tree_description, step A: HLIT and HDIST. An absent distance tree
\* (tree_dist is None) is the empty canon_codes.
tree_hlit(lit_canon_codes) ==
    LET hlit == (IF DOMAIN lit_canon_codes = {} THEN 256
                 ELSE SetMax(DOMAIN lit_canon_codes)) + 1
    IN  IF hlit < 257 THEN 257 ELSE IF hlit > 286 THEN 286 ELSE hlit

tree_hdist(dist_canon_codes) ==
    LET hdist == IF DOMAIN dist_canon_codes = {} THEN 1
                 ELSE SetMax(DOMAIN dist_canon_codes) + 1
    IN  IF hdist < 1 THEN 1 ELSE IF hdist > 30 THEN 30 ELSE hdist

\* write_tree_description, step B: all_code_lengths = lit_len_lengths + dist_lengths.
all_code_lengths(lit_canon_codes, dist_canon_codes) ==
    Tuple([i \in 1..tree_hlit(lit_canon_codes) |-> code_length_of(lit_canon_codes, i - 1)])
    \o Tuple([i \in 1..tree_hdist(dist_canon_codes) |->
                code_length_of(dist_canon_codes, i - 1)])

\* write_tree_description, step C (run-length encoding). The result is a sequence
\* of <<symbol, <<extra bit count, extra value>>>>, i.e. rle_encoded_lengths and
\* rle_extra_bits side by side.
Repeat(n, x) == Tuple([k \in 1..n |-> x])

\* "while count >= 3: num_repeats = min(count, 6); append 16 with (2, num_repeats - 3)",
\* then the rest (0, 1 or 2 repeats) as the length itself.
RECURSIVE rle_repeat_previous(_, _)
rle_repeat_previous(length, count) ==
    IF count >= 3
    THEN << <<16, <<2, Min(count, 6) - 3>>>> >>
         \o rle_repeat_previous(length, count - Min(count, 6))
    ELSE Repeat(count, <<length, <<0, 0>>>>)

\* "while count >= 3: num_zeros = min(count, 10); append 17 with (3, num_zeros - 3)",
\* then the rest (0, 1 or 2 zeros) as they are.
RECURSIVE rle_short_zeros(_)
rle_short_zeros(count) ==
    IF count >= 3
    THEN << <<17, <<3, Min(count, 10) - 3>>>> >> \o rle_short_zeros(count - Min(count, 10))
    ELSE Repeat(count, <<0, <<0, 0>>>>)

\* "while count >= 11: num_zeros = min(count, 138); append 18 with (7, num_zeros - 11)",
\* then the short-run rule on what is left.
RECURSIVE rle_zero_run(_)
rle_zero_run(count) ==
    IF count >= 11
    THEN << <<18, <<7, Min(count, 138) - 11>>>> >> \o rle_zero_run(count - Min(count, 138))
    ELSE rle_short_zeros(count)

\* the inner "while j < len(all_code_lengths) and all_code_lengths[j] == length":
\* the number of equal entries from index i (0-based) on.
run_count(lengths, i) ==
    LET other == {j \in (i + 1)..(Len(lengths) - 1) : lengths[j + 1] # lengths[i + 1]}
    IN  (IF other = {} THEN Len(lengths) ELSE CHOOSE j \in other : \A x \in other : j <= x) - i

\* the outer "while i < len(all_code_lengths)".
RECURSIVE rle_encode_from(_, _)
rle_encode_from(lengths, i) ==
    IF i >= Len(lengths) THEN <<>>
    ELSE LET length == lengths[i + 1]
             count == run_count(lengths, i)
         IN  (IF length = 0 THEN rle_zero_run(count)
              ELSE << <<length, <<0, 0>>>> >> \o rle_repeat_previous(length, count - 1))
             \o rle_encode_from(lengths, i + count)

rle_encode(lengths) == rle_encode_from(lengths, 0)

\* write_tree_description, step E: the order of the code-length code lengths, and
\* HCLEN = 1 + the last position of cl_order whose symbol has a code (at least 4).
cl_order == <<16, 17, 18, 0, 8, 7, 9, 6, 10, 5, 11, 4, 12, 3, 13, 2, 14, 1, 15>>

tree_hclen(cl_canon_codes) ==
    LET present == {k \in 0..18 : cl_order[k + 1] \in DOMAIN cl_canon_codes}
        hclen == IF present = {} THEN 19 ELSE SetMax(present) + 1
    IN  IF hclen < 4 THEN 4 ELSE hclen

\* step F: "for k in range(hclen): writer.write_bits_lsb(cl_code_len, 3)".
RECURSIVE write_cl_lengths(_, _, _, _)
write_cl_lengths(bits, cl_canon_codes, k, hclen) ==
    IF k >= hclen THEN bits
    ELSE write_cl_lengths(write_bits_lsb(bits, code_length_of(cl_canon_codes, cl_order[k + 1]), 3),
                          cl_canon_codes, k + 1, hclen)

\* step G: "for rle_sym in rle_encoded_lengths": code MSB first, extra bits LSB
\* first; state [err, bits, k].
RECURSIVE write_rle_symbols(_, _, _)
write_rle_symbols(st, encoded, cl_canon_codes) ==
    IF st.err # "" \/ st.k >= Len(encoded) THEN st
    ELSE LET rle_sym == encoded[st.k + 1][1]
             extra == encoded[st.k + 1][2]
         IN  IF rle_sym \notin DOMAIN cl_canon_codes THEN [st EXCEPT !.err = "ValueError"]
             ELSE LET code == cl_canon_codes[rle_sym]
                      b1 == write_bits_msb(st.bits, code[1], code[2])
                      b2 == IF extra[1] > 0 THEN write_bits_lsb(b1, extra[2], extra[1]) ELSE b1
                  IN  write_rle_symbols([err |-> "", bits |-> b2, k |-> st.k + 1],
                                        encoded, cl_canon_codes)

\* Deflate.write_tree_description(writer, tree_lit_len, tree_dist) of src/deflate.py.
\* Result: [err, bits, k].
write_tree_description(bits, lit_canon_codes, dist_canon_codes) ==
    LET encoded == rle_encode(all_code_lengths(lit_canon_codes, dist_canon_codes))
        cl_canon_codes == tree_canon_codes(Counter([k \in 1..Len(encoded) |-> encoded[k][1]]))
        hclen == tree_hclen(cl_canon_codes)
        b1 == write_bits_lsb(bits, tree_hlit(lit_canon_codes) - 257, 5)
        b2 == write_bits_lsb(b1, tree_hdist(dist_canon_codes) - 1, 5)
        b3 == write_bits_lsb(b2, hclen - 4, 4)
    IN  write_rle_symbols([err |-> "", bits |-> write_cl_lengths(b3, cl_canon_codes, 0, hclen),
                           k |-> 0],
                          encoded, cl_canon_codes)

\* Deflate.compress of src/deflate.py, lines 90-141: one turn of "for i, block in
\* enumerate(blocks)": the block's own trees, BFINAL, BTYPE=10, the tree
\* description, the block data. Result: [err, bits, ...].
write_dynamic_block(bits, block, is_final) ==
    LET sym_codes == tree_canon_codes(Counter(block.symbols))
        dist_codes == IF block.distances = <<>> THEN << >>
                      ELSE tree_canon_codes(Counter(block.distances))
        header == write_bits_lsb(write_bits_lsb(bits, IF is_final THEN 1 ELSE 0, 1), 2, 2)
        trees == write_tree_description(header, sym_codes, dist_codes)
    IN  IF trees.err # "" THEN trees
        ELSE write_block_data([err |-> "", bits |-> trees.bits, k |-> 0, d |-> 0],
                              block, sym_codes, dist_codes)

\* write_tree_description, step G without the codes: the extra-bit fields of the
\* run-length symbols in stream order, each written LSB first.
RECURSIVE write_rle_extra(_, _, _)
write_rle_extra(bits, encoded, k) ==
    IF k >= Len(encoded) THEN bits
    ELSE LET extra == encoded[k + 1][2]
         IN  write_rle_extra(IF extra[1] > 0 THEN write_bits_lsb(bits, extra[2], extra[1])
                             ELSE bits,
                             encoded, k + 1)

\* Deflate._decompress_32kb_block, lines 487-518: "while i < hlit + hdist". symbols
\* are what _decode_huffman_symbol(reader, cl_tree) delivers one after the other,
\* bits is where reader.read_bits_lsb takes the extra bits from. Every exception
\* leaves the method as a ValueError. State [err, i, k, pos, code_lengths].
RECURSIVE code_length_loop(_, _, _, _)
code_length_loop(st, symbols, bits, total) ==
    IF st.err # "" \/ st.i >= total THEN st
    ELSE IF st.k >= Len(symbols) THEN [st EXCEPT !.err = "ValueError"]
    ELSE LET code == symbols[st.k + 1]
             n == IF code = 16 THEN 2 ELSE IF code = 17 THEN 3 ELSE 7
             base == IF code = 18 THEN 11 ELSE 3
             r == read_bits_lsb(bits, st.pos, n)
             repeat_count == r.val + base
         IN  IF code <= 15
             THEN code_length_loop([err |-> "", i |-> st.i + 1, k |-> st.k + 1,
                                    pos |-> st.pos,
                                    code_lengths |-> Append(st.code_lengths, code)],
                                   symbols, bits, total)
             ELSE IF code > 18 \/ (code = 16 /\ st.code_lengths = <<>>) \/ r.eof
             THEN [st EXCEPT !.err = "ValueError"]
             ELSE code_length_loop(
                      [err |-> "", i |-> st.i + repeat_count, k |-> st.k + 1, pos |-> r.pos,
                       code_lengths |->
                           st.code_lengths
                           \o Repeat(repeat_count,
                                     IF code = 16 THEN st.code_lengths[Len(st.code_lengths)]
                                     ELSE 0)],
                      symbols, bits, total)

\* ------------------------------------ Block Decoder of src/deflate.py

\* Deflate._decode_huffman_symbol of src/deflate.py, the "while code_len <=
\* max_code_len" loop: a code of max_code_len bits that is in no entry lets the
\* loop read one more bit before it returns None; the (0, 0) entry is the
\* fallback of both "if ... and (0, 0) in tree" tests.
RECURSIVE src_decode_symbol_loop(_, _, _, _, _, _)
src_decode_symbol_loop(bits, pos, tree, code, code_len, max_code_len) ==
    IF code_len > max_code_len THEN [sym |-> NoValue, pos |-> pos]
    ELSE LET r == read_bit(bits, pos)
             c == code * 2 + r.val
         IN  IF r.eof THEN [sym |-> NoValue, pos |-> pos]
             ELSE IF <<code_len + 1, c>> \in DOMAIN tree
                  THEN LET symbol == tree[<<code_len + 1, c>>]
                       IN  [sym |-> IF symbol > 29 /\ <<0, 0>> \in DOMAIN tree
                                    THEN tree[<<0, 0>>] ELSE symbol,
                            pos |-> r.pos]
                  ELSE IF code_len + 1 = max_code_len /\ <<0, 0>> \in DOMAIN tree
                       THEN [sym |-> tree[<<0, 0>>], pos |-> r.pos]
                       ELSE src_decode_symbol_loop(bits, r.pos, tree, c, code_len + 1,
                                                   max_code_len)

\* a _decode_huffman_symbol that looks at the bits of a code and leaves the reader
\* where it was.
src_decode_huffman_symbol_peek(bits, pos, tree) ==
    [sym |-> src_decode_symbol_loop(bits, pos, tree, 0, 0,
                                    IF DOMAIN tree = {} THEN 0
                                    ELSE SetMax({key[1] : key \in DOMAIN tree})).sym,
     pos |-> pos]

src_decode_huffman_symbol(bits, pos, tree) ==
    src_decode_symbol_loop(bits, pos, tree, 0, 0,
                           IF DOMAIN tree = {} THEN 0
                           ELSE SetMax({key[1] : key \in DOMAIN tree}))

\* Deflate._decode_huffman_data of src/deflate.py, one turn of the "while True"
\* loop on the state [err, done, pos, out].
src_decode_turn(st, bits, lit_len_tree, dist_tree) ==
    LET s == src_decode_huffman_symbol(bits, st.pos, lit_len_tree)
    IN  IF s.sym = NoValue THEN [st EXCEPT !.pos = s.pos, !.done = TRUE]
        ELSE IF s.sym < 256 THEN [st EXCEPT !.pos = s.pos, !.out = Append(@, s.sym)]
        ELSE IF s.sym = 256 THEN [st EXCEPT !.pos = s.pos, !.done = TRUE]
        ELSE LET l == _decode_length(bits, s.pos, s.sym)
             IN  IF l.err # "" THEN [st EXCEPT !.pos = l.pos, !.err = l.err]
                 ELSE IF l.val = NoValue THEN [st EXCEPT !.pos = l.pos, !.err = "ValueError"]
                 ELSE LET dsym == src_decode_huffman_symbol(bits, l.pos, dist_tree)
                      IN  IF dsym.sym = NoValue
                          THEN [st EXCEPT !.pos = dsym.pos, !.err = "ValueError"]
                          ELSE LET dd == _decode_distance(bits, dsym.pos, dsym.sym)
                               IN  IF dd.err # ""
                                   THEN [st EXCEPT !.pos = dd.pos, !.err = dd.err]
                                   ELSE IF dd.val = NoValue \/ dd.val > Len(st.out)
                                        THEN [st EXCEPT !.pos = dd.pos, !.err = "ValueError"]
                                        ELSE [st EXCEPT !.pos = dd.pos,
                                                        !.out = copy_match(@, dd.val, l.val)]

RECURSIVE src_decode_loop(_, _, _, _)
src_decode_loop(st, bits, lit_len_tree, dist_tree) ==
    IF st.err # "" \/ st.done THEN st
    ELSE src_decode_loop(src_decode_turn(st, bits, lit_len_tree, dist_tree),
                         bits, lit_len_tree, dist_tree)

src_decode_huffman_data(bits, pos, lit_len_tree, dist_tree, output_buffer) ==
    src_decode_loop([err |-> "", done |-> FALSE, pos |-> pos, out |-> output_buffer],
                    bits, lit_len_tree, dist_tree)

\* the bytes "for _ in range(len_bytes): output_buffer.append(
\* reader.read_bits_lsb(8))" appends: read_bits_lsb raises EOFError at the first
\* byte that is not whole, the bytes before it are already in the buffer.
stored_bytes(bits, pos, len_bytes) ==
    LET whole == Min(len_bytes, (Len(bits) - pos) \div 8)
    IN  [eof |-> whole < len_bytes,
         pos |-> pos + 8 * whole,
         bytes |-> [j \in 1..whole |-> read_bits_lsb(bits, pos + 8 * (j - 1), 8).val]]

\* Deflate._decompress_uncompressed_block of src/deflate.py. Result [err, pos, out].
_decompress_uncompressed_block(bits, pos, output_buffer) ==
    LET p0 == byte_align_read(pos)
        len_bytes == read_bits_lsb(bits, p0, 16)
        nlen_bytes == read_bits_lsb(bits, len_bytes.pos, 16)
        data == stored_bytes(bits, nlen_bytes.pos, len_bytes.val)
    IN  IF len_bytes.eof THEN [err |-> "EOFError", pos |-> p0, out |-> output_buffer]
        ELSE IF nlen_bytes.eof
             THEN [err |-> "EOFError", pos |-> len_bytes.pos, out |-> output_buffer]
        ELSE IF len_bytes.val + nlen_bytes.val # 65535
             THEN [err |-> "ValueError", pos |-> nlen_bytes.pos, out |-> output_buffer]
        ELSE [err |-> IF data.eof THEN "EOFError" ELSE "",
              pos |-> data.pos,
              out |-> output_buffer \o data.bytes]

\* _decompress_32kb_block, "for i in range(hclen): length = read_bits_lsb(3);
\* cl_lengths[code_length_order[i]] = length" (a 3-bit value is never > 7).
RECURSIVE read_cl_lengths(_, _, _, _, _)
read_cl_lengths(bits, pos, k, hclen, cl_lengths) ==
    IF k >= hclen THEN [eof |-> FALSE, pos |-> pos, cl_lengths |-> cl_lengths]
    ELSE LET r == read_bits_lsb(bits, pos, 3)
         IN  IF r.eof THEN [eof |-> TRUE, pos |-> pos, cl_lengths |-> cl_lengths]
             ELSE read_cl_lengths(bits, r.pos, k + 1, hclen,
                                  [cl_lengths EXCEPT ![cl_order[k + 1] + 1] = r.val])

\* _decompress_32kb_block, "while i < hlit + hdist" with the symbols decoded from
\* the reader by cl_tree. State [err, i, pos, code_lengths]; a None symbol makes
\* "code <= 15" a TypeError; every exception becomes the ValueError of the method.
RECURSIVE read_code_lengths(_, _, _, _)
read_code_lengths(st, bits, cl_tree, total) ==
    IF st.err # "" \/ st.i >= total THEN st
    ELSE LET s == src_decode_huffman_symbol(bits, st.pos, cl_tree)
             code == s.sym
             n == IF code = 16 THEN 2 ELSE IF code = 17 THEN 3 ELSE 7
             base == IF code = 18 THEN 11 ELSE 3
             r == read_bits_lsb(bits, s.pos, n)
             repeat_count == r.val + base
         IN  IF code = NoValue THEN [st EXCEPT !.err = "ValueError", !.pos = s.pos]
             ELSE IF code <= 15
             THEN read_code_lengths([err |-> "", i |-> st.i + 1, pos |-> s.pos,
                                     code_lengths |-> Append(st.code_lengths, code)],
                                    bits, cl_tree, total)
             ELSE IF code > 18 \/ (code = 16 /\ st.code_lengths = <<>>) \/ r.eof
             THEN [st EXCEPT !.err = "ValueError", !.pos = s.pos]
             ELSE read_code_lengths(
                      [err |-> "", i |-> st.i + repeat_count, pos |-> r.pos,
                       code_lengths |->
                           st.code_lengths
                           \o Repeat(repeat_count,
                                     IF code = 16 THEN st.code_lengths[Len(st.code_lengths)]
                                     ELSE 0)],
                      bits, cl_tree, total)

\* Deflate._decompress_32kb_block of src/deflate.py, from the last step back to the
\* first. Result [err, pos, out, code_lengths]; the "except Exception" of the method
\* turns every exception into a ValueError.
dynamic_block_failed(pos, output_buffer, code_lengths) ==
    [err |-> "ValueError", pos |-> pos, out |-> output_buffer, code_lengths |-> code_lengths]

\* "self._decode_huffman_data(reader, lit_len_tree, dist_tree, output_buffer, verbose)"
dynamic_block_data(r, code_lengths) ==
    [err |-> IF r.err # "" THEN "ValueError" ELSE "",
     pos |-> r.pos, out |-> r.out, code_lengths |-> code_lengths]

\* "if not lit_len_tree: raise ...", "if not dist_tree: raise ..."
dynamic_block_trees(bits, pos, lit_len_tree, dist_tree, output_buffer, code_lengths) ==
    IF DOMAIN lit_len_tree = {} \/ DOMAIN dist_tree = {}
    THEN dynamic_block_failed(pos, output_buffer, code_lengths)
    ELSE dynamic_block_data(src_decode_huffman_data(bits, pos, lit_len_tree, dist_tree,
                                                    output_buffer),
                            code_lengths)

\* "lit_len_lengths = code_lengths[:hlit]; dist_lengths = code_lengths[hlit :
\* hlit + hdist]" and the two trees built from them.
dynamic_block_split(bits, read, hlit, hdist, output_buffer) ==
    IF read.err # "" THEN dynamic_block_failed(read.pos, output_buffer, <<>>)
    ELSE dynamic_block_trees(
             bits, read.pos,
             _build_huffman_tree_from_lengths(slice(read.code_lengths, 0, hlit)),
             _build_huffman_tree_from_lengths(slice(read.code_lengths, hlit, hlit + hdist)),
             output_buffer, read.code_lengths)

\* "if not cl_tree: raise ...", then the code lengths are read.
dynamic_block_lengths(bits, cl, cl_tree, hlit, hdist, output_buffer) ==
    IF cl.eof \/ DOMAIN cl_tree = {} THEN dynamic_block_failed(cl.pos, output_buffer, <<>>)
    ELSE dynamic_block_split(
             bits,
             read_code_lengths([err |-> "", i |-> 0, pos |-> cl.pos, code_lengths |-> <<>>],
                               bits, cl_tree, hlit + hdist),
             hlit, hdist, output_buffer)

\* "cl_lengths = [0] * 19", the loop over hclen, "cl_tree =
\* self._build_huffman_tree_from_lengths(cl_lengths)"
dynamic_block_cl_tree(bits, cl, hlit, hdist, output_buffer) ==
    dynamic_block_lengths(bits, cl, _build_huffman_tree_from_lengths(cl.cl_lengths),
                          hlit, hdist, output_buffer)

\* a block header read without the test of its three counts.
_decompress_32kb_block_unchecked(bits, pos, output_buffer) ==
    LET h1 == read_bits_lsb(bits, pos, 5)
        h2 == read_bits_lsb(bits, h1.pos, 5)
        h3 == read_bits_lsb(bits, h2.pos, 4)
        hlit == h1.val + 257
        hdist == h2.val + 1
        hclen == h3.val + 4
    IN  IF h1.eof \/ h2.eof \/ h3.eof THEN dynamic_block_failed(pos, output_buffer, <<>>)
        ELSE dynamic_block_cl_tree(bits, read_cl_lengths(bits, h3.pos, 0, hclen, Repeat(19, 0)),
                                   hlit, hdist, output_buffer)

\* lines 456-464: HLIT, HDIST, HCLEN and "if hlit > 286 or hdist > 30 or hclen > 19".
_decompress_32kb_block(bits, pos, output_buffer) ==
    LET h1 == read_bits_lsb(bits, pos, 5)
        h2 == read_bits_lsb(bits, h1.pos, 5)
        h3 == read_bits_lsb(bits, h2.pos, 4)
        hlit == h1.val + 257
        hdist == h2.val + 1
        hclen == h3.val + 4
    IN  IF h1.eof \/ h2.eof \/ h3.eof THEN dynamic_block_failed(pos, output_buffer, <<>>)
        ELSE IF hlit > 286 \/ hdist > 30 \/ hclen > 19
             THEN dynamic_block_failed(h3.pos, output_buffer, <<>>)
        ELSE dynamic_block_cl_tree(bits, read_cl_lengths(bits, h3.pos, 0, hclen, Repeat(19, 0)),
                                   hlit, hdist, output_buffer)

\* the reader and the output buffer after a block, and the exception it raised.
after_block(seen, r) ==
    [seen EXCEPT !.pos = r.pos, !.decoded_data = r.out, !.exit = r.err]

\* Deflate.decompress of src/deflate.py, one turn of "while not is_final_block" on
\* [bits, pos, decoded_data, is_final_block, exit, headers]: exit is ""
\* while the loop goes on, else the exception that leaves decompress. No exception
\* is caught here.
src_decompress_block(st) ==
    LET b == read_bit(st.bits, st.pos)
        final == (b.val = 1)
        t == read_bits_lsb(st.bits, b.pos, 2)
        seen == [st EXCEPT !.is_final_block = final, !.pos = t.pos,
                           !.headers = Append(@, <<b.val, t.val>>)]
    IN  IF b.eof THEN [st EXCEPT !.exit = "EOFError"]
        ELSE IF t.eof THEN [st EXCEPT !.is_final_block = final, !.pos = b.pos,
                                      !.exit = "EOFError"]
        ELSE IF t.val = 0
             THEN after_block(seen, _decompress_uncompressed_block(st.bits, t.pos,
                                                                   st.decoded_data))
        ELSE IF t.val = 1
             THEN after_block(seen, src_decode_huffman_data(st.bits, t.pos,
                                                            _create_fixed_huffman_lit_len_tree,
                                                            _create_fixed_huffman_dist_tree,
                                                            st.decoded_data))
        ELSE IF t.val = 2
             THEN after_block(seen, _decompress_32kb_block(st.bits, t.pos, st.decoded_data))
        ELSE [seen EXCEPT !.exit = "ValueError"]

\* ------------------------------------------------- Inflater (src/inflater.py)

WINDOW_SIZE == 32768

\* self.window.append(b) on deque(maxlen=WINDOW_SIZE): a full window drops its
\* oldest byte.
window_append(window, b) ==
    IF Len(window) >= WINDOW_SIZE THEN Append(Tail(window), b) ELSE Append(window, b)

\* Inflater._write_bytes, "for b in data: self.window.append(b)" from data[k] on.
RECURSIVE window_extend(_, _, _)
window_extend(window, data, k) ==
    IF k > Len(data) THEN window
    ELSE window_extend(window_append(window, data[k]), data, k + 1)

\* Inflater._write_bytes on [window, out]: the bytes go into the window and to the
\* output stream (the CRC is not modelled).
_write_bytes(st, data) ==
    [st EXCEPT !.window = window_extend(@, data, 1), !.out = @ \o data]

\* Inflater._copy_window, "for _ in range(length)": b = self.window[-dist] raises
\* IndexError when dist > len(window) (window[-0] is window[0]); buf.append(b);
\* self.window.append(b). Result [err, buf, window].
RECURSIVE copy_window_loop(_, _, _, _)
copy_window_loop(window, dist, length, buf) ==
    IF length <= 0 THEN [err |-> "", buf |-> buf, window |-> window]
    ELSE IF dist > Len(window) \/ window = <<>>
         THEN [err |-> "IndexError", buf |-> buf, window |-> window]
         ELSE LET b == window[IF dist = 0 THEN 1 ELSE Len(window) - dist + 1]
              IN  copy_window_loop(window_append(window, b), dist, length - 1,
                                   Append(buf, b))

_copy_window(window, dist, length) == copy_window_loop(window, dist, length, <<>>)

\* Inflater._process_huffman, the branch of a literal: self._write_bytes(bytes([b])).
process_literal(st, sym) == _write_bytes(st, <<sym>>)

\* Inflater._process_huffman, the branch of a length/distance pair:
\* chunk = self._copy_window(dist, length); self._write_bytes(chunk).
process_pair(st, dist, length) ==
    LET c == _copy_window(st.window, dist, length)
    IN  IF c.err # "" THEN [st EXCEPT !.window = c.window, !.err = c.err]
        ELSE _write_bytes([st EXCEPT !.window = c.window], c.buf)

\* Inflater._process_uncompressed with LEN, NLEN and the bytes as read from the
\* stream: "nlen = read_bits(16) ^ 0xFFFF; if nlen != len_lo: raise ValueError".
_process_uncompressed(st, len_lo, nlen_field, data) ==
    IF 65535 - nlen_field # len_lo THEN [st EXCEPT !.err = "ValueError"]
    ELSE _write_bytes(st, data)

\* ------------------------------------------------- specification: the tables

OverRange == 2          \* how far past the legal range the inputs go
Modules == {"alg", "src", "pair"}
LengthInputs == 0..(258 + OverRange)
DistanceInputs == 0..(MAX_WINDOW_SIZE + OverRange)

MapOf(mod, kind, v) ==
    IF kind = "len"
    THEN CASE mod = "alg" -> alg_map_length(v)
           [] mod = "src" -> src_map_length(v)
           [] OTHER       -> LET p == LZPair(1, v) IN IF p.ok THEN p.len ELSE RangeError
    ELSE CASE mod = "alg" -> alg_map_distance(v)
           [] mod = "src" -> src_map_distance(v)
           [] OTHER       -> LET p == LZPair(v, 3) IN IF p.ok THEN p.dist ELSE RangeError

InitTables ==
    /\ \E mod \in Modules, kind \in {"len", "dist"} :
        \E v \in (IF kind = "len" THEN LengthInputs ELSE DistanceInputs) :
            mapping = [pc |-> "input", mod |-> mod, kind |-> kind, inp |-> v,
                     res |-> RangeError, bits |-> <<>>, dec |-> DecodeError(0)]
    /\ canon = Off /\ huff = Off
    /\ lz = Off /\ enc = Off /\ dec = Off /\ blk = Off /\ rle = Off
    /\ stm = Off /\ inf = Off /\ bio = Off
    /\ fnd = Off /\ win = Off /\ turns = Off

\* LZ77.compress / LZPair(...): the value is mapped to (code, extra bits, extra value).
MapValue ==
    /\ mapping.pc = "input"
    /\ LET r == MapOf(mapping.mod, mapping.kind, mapping.inp)
       IN  mapping' = [mapping EXCEPT !.res = r,
                                      !.pc = IF r.ok THEN "mapped" ELSE "raised"]

\* Deflate.compress_file: "if eb_cnt > 0: writer.write_bits_lsb(eb_val, eb_cnt)".
WriteExtra ==
    /\ mapping.pc = "mapped"
    /\ mapping' = [mapping EXCEPT
           !.bits = IF mapping.res.bits > 0
                    THEN write_bits_lsb(<<>>, mapping.res.val, mapping.res.bits)
                    ELSE <<>>,
           !.pc = "written"]

\* Deflate._decode_huffman_data: the decoder resolves the code and its extra bits.
DecodeValue ==
    /\ mapping.pc = "written"
    /\ mapping' = [mapping EXCEPT
           !.dec = IF mapping.kind = "len"
                   THEN _decode_length(mapping.bits, 0, mapping.res.code)
                   ELSE _decode_distance(mapping.bits, 0, mapping.res.code),
           !.pc = "decoded"]

NextTables ==
    (MapValue \/ WriteExtra \/ DecodeValue)
    /\ UNCHANGED <<canon, huff, lz, enc, dec, blk, rle, stm, inf, bio, fnd, win, turns>>

SpecTables == InitTables /\ [][NextTables]_vars

\* the value under test lies in the legal range of its table.
InRange ==
    IF mapping.kind = "len" THEN mapping.inp \in 3..258
    ELSE mapping.inp \in 1..MAX_WINDOW_SIZE

\* the code of the table entry with the largest base that is <= value.
largest_base_code(table, value) ==
    LET below == {k \in 1..Len(table) : table[k][2] <= value}
        e == CHOOSE k \in below : \A j \in below : table[j][2] <= table[k][2]
    IN  table[e][1]

\* C5: for every length 3..258 and distance 1..32768, map_length / map_distance of
\* either LZ77 module return (code, bits, val) with 0 <= val < 2^bits, and
\* _decode_length / _decode_distance on that code and those extra bits give the
\* value back.
C5_MapDecodeRoundTrip ==
    (mapping.pc # "off" /\ mapping.mod \in {"alg", "src"} /\ InRange) =>
        /\ mapping.pc # "raised"
        /\ mapping.pc \in {"mapped", "written", "decoded"} =>
               /\ 0 <= mapping.res.val
               /\ mapping.res.val < 2^(mapping.res.bits)
        /\ mapping.pc = "written" => Len(mapping.bits) = mapping.res.bits
        /\ mapping.pc = "decoded" =>
               /\ mapping.dec.err = ""
               /\ mapping.dec.val = mapping.inp
               /\ mapping.dec.pos = mapping.res.bits

\* C5, the case: length 258 went through LZ77_deflate's map_length (code 284 with
\* five extra bits) and came back from _decode_length.
C5_Witness ==
    /\ mapping.pc = "decoded" /\ mapping.mod = "alg" /\ mapping.kind = "len"
    /\ mapping.inp = 258 /\ mapping.res.bits = 5 /\ mapping.dec.val = 258

\* C6: every length outside 3..258 and every distance outside 1..32768 fails with
\* a range error; none is mapped to a triple.
C6_OutOfRangeRejected ==
    (mapping.pc \notin {"off", "input"} /\ ~InRange) => mapping.pc = "raised"

\* C7: the code returned for an in-range value is that of the table entry with the
\* largest base <= value (258 -> 285), in both LZ77 modules and in LZPair.
C7_LargestBase ==
    (mapping.pc = "mapped" /\ InRange) =>
        mapping.res.code = largest_base_code(IF mapping.kind = "len" THEN length_table
                                             ELSE distance_table, mapping.inp)

\* --------------------------------- specification: canonical code assignment

NumSyms == 4            \* symbols 0 .. NumSyms-1 of the alphabet under test
MaxCodeLen == 3         \* code lengths 0 .. MaxCodeLen (0: the symbol is absent)

\* write_tree_description, step B for a table: hdist = max(canon_codes) + 1 and
\* [canon_codes.get(i, (0, 0))[1] for i in range(hdist)].
lengths_list(canon_codes) ==
    LET top == CHOOSE m \in DOMAIN canon_codes : \A x \in DOMAIN canon_codes : x <= m
    IN  [k \in 1..(top + 1) |->
            IF (k - 1) \in DOMAIN canon_codes THEN canon_codes[k - 1][2] ELSE 0]

\* a res_codes dict whose codes have the given lengths: make_canonical reads
\* nothing of a code but its length.
RECURSIVE codes_of_lengths(_, _)
codes_of_lengths(lens, sym) ==
    IF sym \notin DOMAIN lens THEN <<>>
    ELSE (IF lens[sym] > 0 THEN << <<sym, [k \in 1..lens[sym] |-> 0]>> >> ELSE <<>>)
         \o codes_of_lengths(lens, sym + 1)

InitCanon ==
    /\ \E lens \in [0..(NumSyms - 1) -> 0..MaxCodeLen] :
         /\ \E sym \in DOMAIN lens : lens[sym] > 0
         /\ canon = [pc |-> "lengths",
                     res_codes |-> codes_of_lengths(lens, 0),
                     canon_codes |-> << >>, lengths |-> <<>>, tree |-> << >>]
    /\ mapping = Off /\ huff = Off
    /\ lz = Off /\ enc = Off /\ dec = Off /\ blk = Off /\ rle = Off
    /\ stm = Off /\ inf = Off /\ bio = Off
    /\ fnd = Off /\ win = Off /\ turns = Off

\* encoder: HuffmanTree.make_canonical.
CanonEncode ==
    /\ canon.pc = "lengths"
    /\ canon' = [canon EXCEPT !.canon_codes = make_canonical(canon.res_codes),
                              !.pc = "encoded"]

\* encoder: the code lengths as they are put into the block header.
CanonTransmit ==
    /\ canon.pc = "encoded"
    /\ canon' = [canon EXCEPT !.lengths = Tuple(lengths_list(canon.canon_codes)),
                              !.pc = "transmitted"]

\* decoder: Deflate._build_huffman_tree_from_lengths.
CanonDecode ==
    /\ canon.pc = "transmitted"
    /\ canon' = [canon EXCEPT !.tree = _build_huffman_tree_from_lengths(canon.lengths),
                              !.pc = "decoded"]

NextCanon ==
    (CanonEncode \/ CanonTransmit \/ CanonDecode)
    /\ UNCHANGED <<mapping, huff, lz, enc, dec, blk, rle, stm, inf, bio, fnd, win, turns>>

SpecCanon == InitCanon /\ [][NextCanon]_vars

\* C3: for every assignment of code lengths the table of make_canonical and the
\* table of _build_huffman_tree_from_lengths hold the same (code, length) for every
\* symbol, codes of one length are consecutive in ascending symbol order, and the
\* fixed encoding map agrees with the decoder's fixed tree in the same way.
C3_SameTable ==
    canon.pc = "decoded" =>
        LET cc == canon.canon_codes
        IN  /\ DOMAIN canon.tree = {<<cc[sym][2], cc[sym][1]>> : sym \in DOMAIN cc}
            /\ \A sym \in DOMAIN cc : canon.tree[<<cc[sym][2], cc[sym][1]>>] = sym
            /\ \A a, b \in DOMAIN cc :
                   (/\ a < b
                    /\ cc[a][2] = cc[b][2]
                    /\ ~\E c \in DOMAIN cc : a < c /\ c < b /\ cc[c][2] = cc[a][2])
                   => cc[b][1] = cc[a][1] + 1
            /\ \A sym \in DOMAIN _get_fixed_lit_len_encoding_map :
                   LET e == _get_fixed_lit_len_encoding_map[sym]
                   IN  /\ <<e[2], e[1]>> \in DOMAIN _create_fixed_huffman_lit_len_tree
                       /\ _create_fixed_huffman_lit_len_tree[<<e[2], e[1]>>] = sym

\* C3, the case: both tables are built for an assignment with two symbols of one
\* length and a symbol of another length.
C3_Witness ==
    /\ canon.pc = "decoded"
    /\ \E a, b, c \in DOMAIN canon.canon_codes :
          /\ a # b
          /\ canon.canon_codes[a][2] = canon.canon_codes[b][2]
          /\ canon.canon_codes[c][2] > canon.canon_codes[a][2]

\* ------------------------------------------ specification: the Huffman coder

MaxSyms == 3            \* exhaustive histograms: at most MaxSyms symbols, ids 0..MaxSyms-1
MaxFreq == 3            \* ... each with frequency 1..MaxFreq
MaxSkew == 17           \* longest Fibonacci-weighted histogram

Alphabets == {"litlen", "dist", "cl"}

RECURSIVE Fib(_)
Fib(n) == IF n <= 2 THEN 1 ELSE Fib(n - 1) + Fib(n - 2)

\* symbols 0..n-1 in order, symbol k counted Fib(k+1) times.
FibHist(n) == [k \in 1..n |-> <<k - 1, Fib(k)>>]

InitHuffman ==
    /\ \E a \in Alphabets :
         huff = [pc |-> "count", alphabet |-> a, freq_dict |-> <<>>,
                 res_codes |-> << >>, canon_codes |-> << >>]
    /\ mapping = Off /\ canon = Off
    /\ lz = Off /\ enc = Off /\ dec = Off /\ blk = Off /\ rle = Off
    /\ stm = Off /\ inf = Off /\ bio = Off
    /\ fnd = Off /\ win = Off /\ turns = Off

\* Counter(...): a further symbol enters the histogram with its count.
CountSymbol ==
    /\ huff.pc = "count"
    /\ Len(huff.freq_dict) < MaxSyms
    /\ \E sym \in 0..(MaxSyms - 1), f \in 1..MaxFreq :
         /\ \A k \in 1..Len(huff.freq_dict) : huff.freq_dict[k][1] # sym
         /\ huff' = [huff EXCEPT !.freq_dict = Append(huff.freq_dict, <<sym, f>>)]

\* a histogram whose counts grow like the Fibonacci numbers.
CountSkewed ==
    /\ huff.pc = "count"
    /\ Len(huff.freq_dict) < MaxSkew
    /\ huff.alphabet = "cl" => Len(huff.freq_dict) < 19
    /\ huff.freq_dict = FibHist(Len(huff.freq_dict))
    /\ huff' = [huff EXCEPT !.freq_dict = FibHist(Len(huff.freq_dict) + 1)]

\* HuffmanTree.build_from_freq.
BuildFromFreq ==
    /\ huff.pc = "count"
    /\ huff.freq_dict # <<>>
    /\ huff' = [huff EXCEPT !.res_codes = build_from_freq(huff.freq_dict),
                            !.pc = "built"]

\* HuffmanTree.make_canonical.
MakeCanonical ==
    /\ huff.pc = "built"
    /\ huff' = [huff EXCEPT !.canon_codes = make_canonical(huff.res_codes),
                            !.pc = "canonical"]

NextHuffman ==
    (CountSymbol \/ CountSkewed \/ BuildFromFreq \/ MakeCanonical)
    /\ UNCHANGED <<mapping, canon, lz, enc, dec, blk, rle, stm, inf, bio, fnd, win, turns>>

SpecHuffman == InitHuffman /\ [][NextHuffman]_vars

\* C4: the code lengths of build_from_freq + make_canonical never exceed 15 bits for
\* the literal/length and distance alphabets and 7 bits for the code-length
\* alphabet.
C4_LengthLimit ==
    huff.pc = "canonical" =>
        \A sym \in DOMAIN huff.canon_codes :
            huff.canon_codes[sym][2] <= (IF huff.alphabet = "cl" THEN 7 ELSE 15)

\* C21: every symbol in the encoder's table canon_codes has a code of at least one
\* bit, for every histogram, one with a single distinct symbol included: no
\* symbol of depth 0 is in the table.
C21_NoZeroLengthCode ==
    huff.pc = "canonical" =>
        \A sym \in DOMAIN huff.canon_codes : huff.canon_codes[sym][2] >= 1

\* with two or more symbols in the histogram every code has at least one bit
TwoSymbolsHaveCodes ==
    (huff.pc = "canonical" /\ Len(huff.freq_dict) >= 2) =>
        \A sym \in DOMAIN huff.canon_codes : huff.canon_codes[sym][2] >= 1

\* the histogram of a single symbol: the root is a leaf, the symbol's code is the
\* empty string and canon_codes holds it as (0, 0), while the decode table built
\* from the lengths sent for it is empty.
SingleSymbolHasEmptyCode ==
    (huff.pc = "canonical" /\ Len(huff.freq_dict) = 1) =>
        /\ DOMAIN huff.canon_codes = {huff.freq_dict[1][1]}
        /\ huff.canon_codes[huff.freq_dict[1][1]] = <<0, 0>>
        /\ DOMAIN _build_huffman_tree_from_lengths(Tuple(lengths_list(huff.canon_codes))) = {}

\* a code read most-significant bit first is a prefix of another: the leading bits
\* of the longer one are the shorter one.
is_prefix(a, b) == a[2] <= b[2] /\ b[1] \div 2^(b[2] - a[2]) = a[1]

\* the decode table of the lengths of canon_codes, and what _decode_huffman_symbol
\* reads from the written code of a symbol with further bits after it.
canon_decode_tree == _build_huffman_tree_from_lengths(Tuple(lengths_list(huff.canon_codes)))

decoded_code(sym, tree) ==
    src_decode_huffman_symbol(
        write_bits_msb(<<>>, huff.canon_codes[sym][1], huff.canon_codes[sym][2]) \o <<1, 0>>,
        0, tree)

SeveralSymbols == huff.pc = "canonical" /\ Len(huff.freq_dict) >= 2

\* C27: for every histogram of two distinct symbols or more, the canonical codes of
\* build_from_freq and make_canonical are a prefix code: each code value is below
\* 2^length, no code read most-significant bit first is a prefix of another
\* symbol's code, and _decode_huffman_symbol returns for each written code the
\* symbol it was written for.
C27_PrefixCode ==
    SeveralSymbols =>
        /\ \A s \in DOMAIN huff.canon_codes :
              /\ huff.canon_codes[s][1] \in 0..(2^(huff.canon_codes[s][2]) - 1)
              /\ \A t \in DOMAIN huff.canon_codes \ {s} :
                    ~is_prefix(huff.canon_codes[s], huff.canon_codes[t])
        /\ LET tree == canon_decode_tree
           IN  \A s \in DOMAIN huff.canon_codes :
                  decoded_code(s, tree) = [sym |-> s, pos |-> huff.canon_codes[s][2]]

\* C27, the case: three symbols or more with codes of different lengths, each
\* decoded from its written code.
C27_Witness ==
    /\ SeveralSymbols
    /\ Len(huff.freq_dict) >= 3
    /\ \E s, t \in DOMAIN huff.canon_codes :
          /\ huff.canon_codes[s][2] < huff.canon_codes[t][2]
          /\ decoded_code(t, canon_decode_tree).sym = t

\* ------------------------------- specification: compress_file / decompress_file

Alphabet == {97, 200}   \* input bytes: one with an 8-bit and one with a 9-bit fixed code
MaxLen == 7             \* exhaustive inputs: every buffer of 0 .. MaxLen bytes
RunLen == 700           \* one long run of a single byte (matches reach 258 bytes)
BlockBound == 3         \* the small block size that makes short inputs span blocks

WindowSizes == {4, 40000}
Extensions == {<<>>, <<116>>}
BlockSizes == {BlockBound, BLOCK_SIZE}

Buffers == UNION {[1..n -> Alphabet] : n \in 0..MaxLen}

\* the 14 bytes "ababababababab"
Abab == <<97, 98, 97, 98, 97, 98, 97, 98, 97, 98, 97, 98, 97, 98>>

\* Deflate(window_size) on an input file: the buffer and the constructor argument.
Inputs ==
    {<<data, w>> : data \in Buffers, w \in WindowSizes}
    \cup {<<[k \in 1..RunLen |-> 97], 40000>>}
    \cup {<<Abab, 40000>>}

Modules77 == {"alg", "src"}

Init ==
    /\ \E inp \in Inputs, mod \in Modules77 :
         lz = [pc |-> "open", mod |-> mod, data |-> Tuple(inp[1]),
               window_size |-> lz77_window_size(inp[2]), i |-> 0,
               hash_table |-> << >>, tokens |-> <<>>, result |-> <<>>]
    /\ enc = [pc |-> "call", bfinal |-> 1, block_size |-> BLOCK_SIZE, ext |-> <<>>,
              blocks |-> <<>>, block_index |-> 0, bits |-> <<>>,
              block_starts |-> <<>>, file |-> <<>>]
    /\ dec = [pc |-> "call", bits |-> <<>>, pos |-> 0, ext |-> <<>>,
              decoded_data |-> <<>>, is_final_block |-> FALSE, headers |-> <<>>,
              exit |-> "", result |-> <<>>]
    /\ mapping = Off /\ canon = Off /\ huff = Off /\ blk = Off /\ rle = Off
    /\ stm = Off /\ inf = Off /\ bio = Off
    /\ fnd = Off /\ win = Off /\ turns = Off

\* LZ77.compress: mmap.mmap(f.fileno(), length=0, ...) raises ValueError ("cannot
\* mmap an empty file") on an empty input; the exception leaves compress_file.
OpenInput ==
    /\ lz.pc = "open"
    /\ IF Len(lz.data) = 0
       THEN /\ lz' = [lz EXCEPT !.pc = "ValueError"]
            /\ enc' = [enc EXCEPT !.pc = "ValueError"]
       ELSE /\ lz' = [lz EXCEPT !.pc = "tokenize"]
            /\ enc' = enc
    /\ UNCHANGED dec

\* LZ77.compress: one turn of the tokenizing loop.
Tokenize ==
    /\ lz.pc = "tokenize"
    /\ lz.i < Len(lz.data)
    /\ lz' = IF lz.mod = "alg" THEN alg_compress_step(lz) ELSE src_compress_step(lz)
    /\ UNCHANGED <<enc, dec>>

\* LZ77.compress: the tokens are mapped to the four lists, which are returned.
MapTokens ==
    /\ lz.pc = "tokenize"
    /\ lz.i >= Len(lz.data)
    /\ LET r == IF lz.mod = "alg" THEN alg_compress_result(lz.tokens)
                ELSE src_compress_result(lz.tokens)
       IN  lz' = [lz EXCEPT !.result = r,
                            !.pc = IF r = <<"ValueError">> THEN "ValueError" ELSE "returned"]
    /\ UNCHANGED <<enc, dec>>

\* compress_file, step 2: the lists are split into blocks.
Partition ==
    /\ lz.pc = "returned" /\ lz.mod = "alg"
    /\ enc.pc = "call"
    /\ \E bfinal \in {0, 1}, block_size \in BlockSizes, ext \in Extensions :
         LET r == partition(lz.result, block_size)
         IN  enc' = [enc EXCEPT !.bfinal = bfinal, !.block_size = block_size,
                                !.ext = ext, !.blocks = r.blocks,
                                !.pc = IF r.err = "" THEN "header" ELSE r.err]
    /\ UNCHANGED <<lz, dec>>

\* compress_file, step 3: a new BitWriter, the extension header.
WriteHeader ==
    /\ enc.pc = "header"
    /\ enc' = [enc EXCEPT !.bits = write_ext_header(enc.ext), !.pc = "blocks"]
    /\ UNCHANGED <<lz, dec>>

\* compress_file: one turn of "for block_index, block in enumerate(blocks)".
WriteBlock ==
    /\ enc.pc = "blocks"
    /\ enc.block_index < Len(enc.blocks)
    /\ LET r == write_fixed_block(enc.bits, enc.blocks[enc.block_index + 1],
                                  is_final_flag(enc.bfinal, enc.block_index,
                                                Len(enc.blocks)))
       IN  enc' = [enc EXCEPT !.bits = r.bits,
                              !.block_starts = Append(@, Len(enc.bits)),
                              !.block_index = @ + 1,
                              !.pc = IF r.err = "" THEN "blocks" ELSE r.err]
    /\ UNCHANGED <<lz, dec>>

\* compress_file: writer.flush_to_file(output_file).
Flush ==
    /\ enc.pc = "blocks"
    /\ enc.block_index = Len(enc.blocks)
    /\ enc' = [enc EXCEPT !.file = flush_to_file(enc.bits), !.pc = "done"]
    /\ UNCHANGED <<lz, dec>>

\* decompress_file: BitReader(input_file) and the extension header; any exception
\* there becomes a ValueError.
RECURSIVE read_ext_bytes(_, _, _)
read_ext_bytes(bits, pos, n) ==
    IF n = 0 THEN [eof |-> FALSE, bytes |-> <<>>, pos |-> pos]
    ELSE LET r == read_bits_lsb(bits, pos, 8)
             rest == read_ext_bytes(bits, r.pos, n - 1)
         IN  IF r.eof THEN [eof |-> TRUE, bytes |-> <<>>, pos |-> pos]
             ELSE [eof |-> rest.eof, bytes |-> <<r.val>> \o rest.bytes, pos |-> rest.pos]

OpenStream ==
    /\ enc.pc = "done"
    /\ dec.pc = "call"
    /\ LET bits == fromfile(enc.file)
           ext_len == read_bits_lsb(bits, 0, 8)
           ext_bytes == read_ext_bytes(bits, ext_len.pos, ext_len.val)
       IN  dec' = IF ext_len.eof \/ ext_bytes.eof
                  THEN [dec EXCEPT !.bits = bits, !.pc = "ValueError"]
                  ELSE [dec EXCEPT !.bits = bits, !.pos = ext_bytes.pos,
                                   !.ext = ext_bytes.bytes, !.pc = "blocks"]
    /\ UNCHANGED <<lz, enc>>

\* decompress_file: one turn of "while not is_final_block".
DecodeBlock ==
    /\ dec.pc = "blocks"
    /\ ~dec.is_final_block
    /\ LET st == decompress_block(dec)
       IN  dec' = [st EXCEPT !.pc = IF st.exit = "ValueError" THEN "ValueError"
                                    ELSE IF st.exit = "break" \/ st.is_final_block
                                         THEN "write"
                                         ELSE "blocks"]
    /\ UNCHANGED <<lz, enc>>

\* decompress_file: the decoded bytes are written out and returned.
WriteOutput ==
    /\ dec.pc = "write"
    /\ dec' = [dec EXCEPT !.result = dec.decoded_data, !.pc = "done"]
    /\ UNCHANGED <<lz, enc>>

Next ==
    (OpenInput \/ Tokenize \/ MapTokens \/ Partition \/ WriteHeader \/ WriteBlock
        \/ Flush \/ OpenStream \/ DecodeBlock \/ WriteOutput)
    /\ UNCHANGED <<mapping, canon, huff, blk, rle, stm, inf, bio, fnd, win, turns>>

Spec == Init /\ [][Next]_vars

\* the round trip on every input that compress_file accepts.
RoundTripNonEmpty == dec.pc = "done" => dec.result = lz.data /\ dec.ext = enc.ext

NoDecodeError == dec.pc # "ValueError" /\ enc.pc # "IndexError"

\* C1: for every buffer, the empty one included, compress_file writes a stream and
\* decompress_file returns the buffer from it.
C1_RoundTripEveryBuffer ==
    lz.mod = "alg" =>
        /\ lz.pc # "ValueError" /\ enc.pc # "ValueError" /\ dec.pc # "ValueError"
        /\ (dec.pc = "done" /\ enc.bfinal = 1) => dec.result = lz.data

\* the input position at which the k-th token was emitted.
RECURSIVE token_position(_, _)
token_position(tokens, k) ==
    IF k <= 1 THEN 0
    ELSE token_position(tokens, k - 1)
         + (IF tokens[k - 1][1] = "match" THEN tokens[k - 1][3] ELSE 1)

\* C2: every Match token emitted at input position i has 3 <= length <= 258 and
\* 1 <= distance <= i, distance <= 32768 (both LZ77 modules).
C2_MatchBounds ==
    lz.pc # "off" =>
        \A k \in 1..Len(lz.tokens) :
            lz.tokens[k][1] = "match" =>
                /\ 3 <= lz.tokens[k][3] /\ lz.tokens[k][3] <= 258
                /\ 1 <= lz.tokens[k][2]
                /\ lz.tokens[k][2] <= token_position(lz.tokens, k)
                /\ lz.tokens[k][2] <= 32768

\* C2, the case: a match of the full 258 bytes whose distance is the whole input
\* seen so far.
C2_Witness ==
    /\ lz.pc = "returned"
    /\ \E k \in 1..Len(lz.tokens) :
          /\ lz.tokens[k][1] = "match"
          /\ lz.tokens[k][3] = 258
          /\ lz.tokens[k][2] = token_position(lz.tokens, k)

\* C19: for the 14 bytes "ababababababab" the tokens of LZ77.compress(deflate=True)
\* are the literals 'a', 'b' followed by at least one Match of distance 2, and
\* decoding the compressed stream gives the 14 bytes back.
C19_AbabScenario ==
    (lz.pc = "returned" /\ lz.mod = "alg" /\ lz.data = Abab)
        => /\ Len(lz.tokens) >= 3
           /\ lz.tokens[1] = Lit(97) /\ lz.tokens[2] = Lit(98)
           /\ \E k \in 3..Len(lz.tokens) :
                 lz.tokens[k][1] = "match" /\ lz.tokens[k][2] = 2
           /\ dec.pc = "done" => dec.result = Abab

\* what the tokenizer makes of the 14 bytes: four literals, then the matches
\* (distance 4, length 4) and (distance 8, length 6), none reaching past its own
\* start; decoding them gives the input back.
AbabTokens ==
    (lz.pc = "returned" /\ lz.mod = "alg" /\ lz.data = Abab)
        => /\ lz.tokens = <<Lit(97), Lit(98), Lit(97), Lit(98),
                            MatchToken(4, 4), MatchToken(8, 6)>>
           /\ dec.pc \notin {"ValueError", "EOFError"}
           /\ dec.pc = "done" => dec.result = Abab

AbabDecoded ==
    lz.mod = "alg" /\ lz.data = Abab /\ dec.pc = "done" /\ dec.result = Abab

\* C8: every block written by compress_file starts with the final flag and the
\* 2-bit type field, the flag being 1 exactly on the last block when bfinal = 1;
\* symbol 256 ends every block's symbols and occurs nowhere else in them; the
\* decoder finds one such header per block.
C8_BlockFraming ==
    enc.pc \in {"blocks", "done"} =>
        /\ \A k \in 1..Len(enc.block_starts) :
              LET p == enc.block_starts[k]
              IN  /\ enc.bits[p + 1] = (IF enc.bfinal = 1 /\ k = Len(enc.blocks)
                                        THEN 1 ELSE 0)
                  /\ <<enc.bits[p + 2], enc.bits[p + 3]>> = <<1, 0>>
        /\ \A k \in 1..Len(enc.blocks) :
              LET symbols == enc.blocks[k].symbols
              IN  /\ symbols[Len(symbols)] = 256
                  /\ \A j \in 1..(Len(symbols) - 1) : symbols[j] # 256
        /\ (dec.pc = "done" /\ enc.bfinal = 1) =>
              dec.headers = [k \in 1..Len(enc.blocks) |->
                               <<IF k = Len(enc.blocks) THEN 1 ELSE 0, 1>>]

\* C8, the case: a token list longer than the block bound was written as several
\* blocks with bfinal = 1 and read back.
C8_Witness ==
    /\ enc.pc = "done" /\ dec.pc = "done"
    /\ enc.bfinal = 1
    /\ Len(enc.blocks) >= 2
    /\ Len(enc.block_starts) = Len(enc.blocks)

\* ----------------------- specification: the four lists of LZ77.compress unpacked
\* Deflate.compress of src/deflate.py up to the end of its block partition, on the
\* lists LZ77.compress of src/LZ77.py returns.

ListInputs ==
    {<<data, w>> : data \in Buffers, w \in WindowSizes} \cup {<<Abab, 40000>>}

InitLists ==
    /\ \E inp \in ListInputs :
         lz = [pc |-> "open", mod |-> "src", data |-> Tuple(inp[1]),
               window_size |-> lz77_window_size(inp[2]), i |-> 0,
               hash_table |-> << >>, tokens |-> <<>>, result |-> <<>>]
    /\ enc = [pc |-> "call", symbol_list |-> <<>>, length_extra_bits |-> <<>>,
              distance_list |-> <<>>, distance_extra_bits |-> <<>>, blocks |-> <<>>]
    /\ dec = Off
    /\ mapping = Off /\ canon = Off /\ huff = Off /\ blk = Off /\ rle = Off
    /\ stm = Off /\ inf = Off /\ bio = Off
    /\ fnd = Off /\ win = Off /\ turns = Off

\* Deflate.compress (src/deflate.py), step 2, "for i in range(len(symbol_list))"
\* from index i on: an index past the end of a list raises IndexError; a block is
\* appended as it stands. Result: [err, blocks].
RECURSIVE src_partition_loop(_, _, _, _, _, _, _)
src_partition_loop(symbol_list, length_extra_bits, distance_list, distance_extra_bits, i, current_block, blocks) ==
    IF i >= Len(symbol_list) THEN [err |-> "", blocks |-> blocks]
    ELSE IF i >= Len(length_extra_bits) THEN [err |-> "IndexError", blocks |-> blocks]
    ELSE LET sym == symbol_list[i + 1]
             is_len == 257 <= sym /\ sym <= 285
             with_sym == [current_block EXCEPT
                            !.symbols = Append(@, sym),
                            !.length_extra = Append(@, length_extra_bits[i + 1])]
         IN  IF is_len /\ (Len(with_sym.distances) >= Len(distance_list)
                           \/ Len(with_sym.dist_extra) >= Len(distance_extra_bits))
             THEN [err |-> "IndexError", blocks |-> blocks]
             ELSE LET with_dist ==
                          IF is_len
                          THEN [with_sym EXCEPT
                                  !.distances =
                                      Append(@, distance_list[Len(with_sym.distances) + 1]),
                                  !.dist_extra =
                                      Append(@, distance_extra_bits[Len(with_sym.dist_extra) + 1])]
                          ELSE with_sym
                  IN  IF Len(with_dist.symbols) >= BLOCK_SIZE \/ i = Len(symbol_list) - 1
                      THEN src_partition_loop(symbol_list, length_extra_bits, distance_list,
                                              distance_extra_bits, i + 1, EmptyBlock,
                                              Append(blocks, with_dist))
                      ELSE src_partition_loop(symbol_list, length_extra_bits, distance_list,
                                              distance_extra_bits, i + 1, with_dist, blocks)

\* Deflate.compress, step 1 and step 2: "symbol_list, length_extra_bits,
\* distance_list, distance_extra_bits = self.lz77.compress(...)" takes the four
\* lists in the order they are returned in, then the partition.
UnpackLists ==
    /\ lz.pc = "returned" /\ lz.mod = "src"
    /\ enc.pc = "call"
    /\ LET r == src_partition_loop(lz.result[1], lz.result[2], lz.result[3], lz.result[4],
                                   0, EmptyBlock, <<>>)
       IN  enc' = [enc EXCEPT !.symbol_list = lz.result[1],
                              !.length_extra_bits = lz.result[2],
                              !.distance_list = lz.result[3],
                              !.distance_extra_bits = lz.result[4],
                              !.blocks = r.blocks,
                              !.pc = IF r.err = "" THEN "partitioned" ELSE r.err]
    /\ UNCHANGED <<lz, dec>>

NextLists ==
    (OpenInput \/ Tokenize \/ MapTokens \/ UnpackLists)
    /\ UNCHANGED <<mapping, canon, huff, blk, rle, stm, inf, bio, fnd, win, turns>>

SpecLists == InitLists /\ [][NextLists]_vars

Unpacked == lz.pc = "returned" /\ enc.pc # "call"

length_symbols(symbol_list) ==
    {k \in 1..Len(symbol_list) : 257 <= symbol_list[k] /\ symbol_list[k] <= 285}

\* C30: the four lists arrive in the order Deflate.compress unpacks them in: the
\* list used as length extra bits has one entry per entry of symbol_list, the
\* list used as distances has one entry per length symbol 257..285, and the
\* partition loop runs to its end.
C30_ListsInOrder ==
    Unpacked =>
        /\ Len(enc.length_extra_bits) = Len(enc.symbol_list)
        /\ Len(enc.distance_list) = Cardinality(length_symbols(enc.symbol_list))
        /\ enc.pc = "partitioned"

\* what the code does: the list used as length extra bits is the list of distance
\* codes, one per match, the list used as distances is the list of the length
\* extra bits, one per symbol, and the partition loop raises IndexError at the
\* first index past the distance codes.
ListsSwapped ==
    Unpacked =>
        /\ enc.symbol_list = Append(token_symbols(lz.tokens, "src"), 256)
        /\ enc.length_extra_bits = token_distances(lz.tokens, "src")
        /\ enc.distance_list = Append(token_length_extra(lz.tokens, "src"), <<0, 0>>)
        /\ enc.distance_extra_bits = token_distance_extra(lz.tokens, "src")
        /\ Len(enc.length_extra_bits) < Len(enc.symbol_list)
        /\ enc.pc = "IndexError"

\* an input with matches whose lists were unpacked, and one without a match.
MatchListsUnpacked ==
    /\ Unpacked
    /\ Cardinality(length_symbols(enc.symbol_list)) >= 2
    /\ enc.pc = "IndexError"

LiteralListsUnpacked ==
    /\ Unpacked
    /\ length_symbols(enc.symbol_list) = {}
    /\ enc.length_extra_bits = <<>>
    /\ enc.pc = "IndexError"

\* ------------------- specification: one block, coded fixed and coded dynamic

BlockRun == 24          \* longest input of the block specification
BlockWindows == {3, 40000}

\* the blocks of the inputs b^n: literals only under window 3, matches otherwise.
InitBlock ==
    /\ \E n \in 1..BlockRun, b \in Alphabet, w \in BlockWindows, f \in BOOLEAN :
         LET tokens == alg_tokenize([data |-> [k \in 1..n |-> b],
                                     window_size |-> lz77_window_size(w), i |-> 0,
                                     hash_table |-> << >>, tokens |-> <<>>]).tokens
         IN  blk = [pc |-> "block",
                    block |-> partition(alg_compress_result(tokens), BLOCK_SIZE).blocks[1],
                    is_final |-> f,
                    fixed |-> [done |-> FALSE, err |-> "", bits |-> <<>>],
                    dynamic |-> [done |-> FALSE, err |-> "", bits |-> <<>>]]
    /\ mapping = Off /\ canon = Off /\ huff = Off
    /\ lz = Off /\ enc = Off /\ dec = Off /\ rle = Off
    /\ stm = Off /\ inf = Off /\ bio = Off
    /\ fnd = Off /\ win = Off /\ turns = Off

\* compress_file (src/algorithms/deflate.py), one turn of its block loop.
CompressFileBlock ==
    /\ blk.pc = "block"
    /\ ~blk.fixed.done
    /\ LET r == write_fixed_block(<<>>, blk.block, blk.is_final)
       IN  blk' = [blk EXCEPT !.fixed = [done |-> TRUE, err |-> r.err, bits |-> r.bits]]

\* compress (src/deflate.py), one turn of its block loop.
CompressBlock ==
    /\ blk.pc = "block"
    /\ ~blk.dynamic.done
    /\ LET r == write_dynamic_block(<<>>, blk.block, blk.is_final)
       IN  blk' = [blk EXCEPT !.dynamic = [done |-> TRUE, err |-> r.err, bits |-> r.bits]]

NextBlock ==
    (CompressFileBlock \/ CompressBlock)
    /\ UNCHANGED <<mapping, canon, huff, lz, enc, dec, rle, stm, inf, bio, fnd, win, turns>>

SpecBlock == InitBlock /\ [][NextBlock]_vars

\* BTYPE of an emitted block: the two bits after BFINAL, LSB first.
block_type(bits) == read_bits_lsb(bits, 1, 2).val

BothCoded ==
    /\ blk.pc = "block"
    /\ blk.fixed.done /\ blk.fixed.err = ""
    /\ blk.dynamic.done /\ blk.dynamic.err = ""

\* C9 as stated: the block compress_file emits is a fixed-Huffman block (BTYPE=01)
\* when the fixed coding of the block takes no more bits than its dynamic coding,
\* and a dynamic-Huffman block (BTYPE=10) otherwise.
C9_CheaperTypeEmitted ==
    BothCoded =>
        block_type(blk.fixed.bits) =
            (IF Len(blk.fixed.bits) <= Len(blk.dynamic.bits) THEN 1 ELSE 2)

\* C9 amended: the block compress_file emits is a fixed-Huffman block (BTYPE=01, after
\* the BFINAL bit of the block) whether or not the dynamic coding of the block is
\* shorter; compress_file never emits BTYPE=10.
C9_AlwaysFixed ==
    (blk.pc = "block" /\ blk.fixed.done) =>
        /\ blk.fixed.err = ""
        /\ blk.fixed.bits[1] = (IF blk.is_final THEN 1 ELSE 0)
        /\ block_type(blk.fixed.bits) = 1

\* a block whose dynamic coding is shorter than the fixed block that was emitted.
C9_Witness ==
    /\ BothCoded
    /\ Len(blk.dynamic.bits) < Len(blk.fixed.bits)
    /\ block_type(blk.fixed.bits) = 1
    /\ block_type(blk.dynamic.bits) = 2

\* HLIT, HDIST and HCLEN as the header of an emitted dynamic block carries them
\* (5, 5 and 4 bits after BFINAL and BTYPE).
header_counts(bits) ==
    [hlit |-> read_bits_lsb(bits, 3, 5).val + 257,
     hdist |-> read_bits_lsb(bits, 8, 5).val + 1,
     hclen |-> read_bits_lsb(bits, 13, 4).val + 4]

\* the tables of the block as Deflate.compress builds them, and what
\* _decompress_32kb_block makes of the emitted block.
block_sym_codes == tree_canon_codes(Counter(blk.block.symbols))

block_dist_codes ==
    IF blk.block.distances = <<>> THEN << >>
    ELSE tree_canon_codes(Counter(blk.block.distances))

block_parsed == _decompress_32kb_block(blk.dynamic.bits, 3, <<>>)

\* a decode table maps the (length, code) of every symbol of an encoder table back
\* to the symbol.
maps_back(tree, canon_codes) ==
    \A s \in DOMAIN canon_codes :
        /\ <<canon_codes[s][2], canon_codes[s][1]>> \in DOMAIN tree
        /\ tree[<<canon_codes[s][2], canon_codes[s][1]>>] = s

tables_round_trip ==
    LET hlit == header_counts(blk.dynamic.bits).hlit
        hdist == header_counts(blk.dynamic.bits).hdist
        code_lengths == block_parsed.code_lengths
    IN  /\ block_parsed.err = ""
        /\ maps_back(_build_huffman_tree_from_lengths(slice(code_lengths, 0, hlit)),
                     block_sym_codes)
        /\ maps_back(_build_huffman_tree_from_lengths(slice(code_lengths, hlit, hlit + hdist)),
                     block_dist_codes)

DynamicCoded == blk.pc = "block" /\ blk.dynamic.done

\* C25: for every block Deflate.compress codes, a block with no match and a block
\* with a single distance code included, the header carries HLIT in 257..286, HDIST
\* in 1..30 and HCLEN in 4..19, and _decompress_32kb_block parses it without error
\* into decode tables that map every (length, code) the encoder writes back to its
\* symbol.
C25_HeaderRoundTrip ==
    DynamicCoded =>
        /\ blk.dynamic.err = ""
        /\ header_counts(blk.dynamic.bits).hlit \in 257..286
        /\ header_counts(blk.dynamic.bits).hdist \in 1..30
        /\ header_counts(blk.dynamic.bits).hclen \in 4..19
        /\ tables_round_trip

\* the part of C25 the code keeps: the three counts are in range and the block is
\* written without error.
HeaderCountsInRange ==
    DynamicCoded =>
        /\ blk.dynamic.err = ""
        /\ header_counts(blk.dynamic.bits).hlit \in 257..286
        /\ header_counts(blk.dynamic.bits).hdist \in 1..30
        /\ header_counts(blk.dynamic.bits).hclen \in 4..19

\* with two distance codes or more in the block, the tables come back whole.
SeveralDistanceCodesRoundTrip ==
    (DynamicCoded /\ Cardinality(DOMAIN block_dist_codes) >= 2) => tables_round_trip

\* the two cases C25 names, each with its block rejected by the decoder.
NoMatchBlockRejected ==
    /\ DynamicCoded
    /\ blk.block.distances = <<>>
    /\ block_parsed.err = "ValueError"

SingleDistanceCodeRejected ==
    /\ DynamicCoded
    /\ Cardinality(DOMAIN block_dist_codes) = 1
    /\ block_parsed.err = "ValueError"

SeveralDistanceCodesSeen ==
    /\ DynamicCoded
    /\ Cardinality(DOMAIN block_dist_codes) >= 2
    /\ block_parsed.err = ""

\* ------------------------ specification: the run-length coded code lengths

LongRun == 140          \* longest run of equal lengths
RunCounts == {1, 2, 3, 6, 7, 9, 10, 11, 138, 139, LongRun}
RunValues == {0, 7, 15}
ListTotals == {258, 316}    \* HLIT + HDIST at their least and at their most

\* lists of three runs (neighbours of equal value merge into longer runs).
RunLists ==
    {Repeat(x[1], x[3]) \o Repeat(x[2], x[4]) \o Repeat(x[6] - x[1] - x[2], x[5]) :
        x \in {y \in RunCounts \X RunCounts \X RunValues \X RunValues \X RunValues \X ListTotals :
                 y[6] - y[1] - y[2] >= 1}}

\* the list of a literal/length tree built for a Fibonacci-weighted histogram.
SkewedList == all_code_lengths(tree_canon_codes(FibHist(MaxSkew)), << >>)

InitRLE ==
    /\ \E lengths \in RunLists \cup {SkewedList} :
         rle = [pc |-> "lengths", all_code_lengths |-> lengths, encoded |-> <<>>,
                bits |-> <<>>, err |-> "", code_lengths |-> <<>>]
    /\ mapping = Off /\ canon = Off /\ huff = Off
    /\ lz = Off /\ enc = Off /\ dec = Off /\ blk = Off
    /\ stm = Off /\ inf = Off /\ bio = Off
    /\ fnd = Off /\ win = Off /\ turns = Off

\* write_tree_description, step C.
RleEncode ==
    /\ rle.pc = "lengths"
    /\ rle' = [rle EXCEPT !.encoded = rle_encode(rle.all_code_lengths), !.pc = "encoded"]

\* write_tree_description, step G: the extra bits go to the writer.
RleWrite ==
    /\ rle.pc = "encoded"
    /\ rle' = [rle EXCEPT !.bits = write_rle_extra(<<>>, rle.encoded, 0), !.pc = "written"]

\* _decompress_32kb_block: the code-length loop.
RleDecode ==
    /\ rle.pc = "written"
    /\ LET st == code_length_loop([err |-> "", i |-> 0, k |-> 0, pos |-> 0,
                                   code_lengths |-> <<>>],
                                  Tuple([k \in 1..Len(rle.encoded) |-> rle.encoded[k][1]]),
                                  rle.bits, Len(rle.all_code_lengths))
       IN  rle' = [rle EXCEPT !.err = st.err, !.code_lengths = st.code_lengths,
                              !.pc = "decoded"]

NextRLE ==
    (RleEncode \/ RleWrite \/ RleDecode)
    /\ UNCHANGED <<mapping, canon, huff, lz, enc, dec, blk, stm, inf, bio, fnd, win, turns>>

SpecRLE == InitRLE /\ [][NextRLE]_vars

\* the repeat counts of the run-length symbols are those of the format.
RepeatCountsInRange ==
    \A k \in 1..Len(rle.encoded) :
        LET sym == rle.encoded[k][1]
            extra == rle.encoded[k][2]
        IN  /\ sym = 16 => extra[1] = 2 /\ extra[2] + 3 \in 3..6
            /\ sym = 17 => extra[1] = 3 /\ extra[2] + 3 \in 3..10
            /\ sym = 18 => extra[1] = 7 /\ extra[2] + 11 \in 11..138
            /\ sym \notin {16, 17, 18} => extra = <<0, 0>>

\* a list that opens with exactly LongRun = 140 zeros is coded
\* 18 (extra 127), 0, 0 and then goes on with the next length.
LongZeroRunCoded ==
    (/\ LongRun = 140
     /\ \A k \in 1..140 : rle.all_code_lengths[k] = 0
     /\ rle.all_code_lengths[141] # 0) =>
        /\ SubSeq(rle.encoded, 1, 3) = << <<18, <<7, 127>>>>, <<0, <<0, 0>>>>, <<0, <<0, 0>>>> >>
        /\ rle.encoded[4][1] = rle.all_code_lengths[141]

RleRoundTrip ==
    /\ rle.pc # "lengths" => RepeatCountsInRange /\ LongZeroRunCoded
    /\ rle.pc = "decoded" => rle.err = "" /\ rle.code_lengths = rle.all_code_lengths

\* C10: for every code-length list the run-length symbols of write_tree_description
\* repeat 3..6 times with code 16, 3..10 times with code 17 and 11..138 times with
\* code 18 (140 zeros: code 18 with extra 127, then two zeros), and the decoder's
\* code-length loop rebuilds the list entry for entry.
C10_RleRoundTrip ==
    rle.pc # "off" => RleRoundTrip

\* the same for the lists whose entries are code lengths of at most 15 bits.
RleRoundTripUpTo15 ==
    (rle.pc # "off" /\ \A k \in 1..Len(rle.all_code_lengths) : rle.all_code_lengths[k] <= 15)
        => RleRoundTrip

\* a list with a run of 140 zeros went through the encoder and the decoder.
RleLongRunDecoded ==
    /\ rle.pc = "decoded"
    /\ \A k \in 1..140 : rle.all_code_lengths[k] = 0
    /\ rle.all_code_lengths[141] # 0
    /\ rle.code_lengths = rle.all_code_lengths

\* ------------------------------------- specification: the block decoders on streams
\*
\* Deflate.decompress (src/deflate.py) and Deflate.decompress_file
\* (src/algorithms/deflate.py) read streams that no encoder of the repository
\* needs to have written: stored blocks, the reserved block type, dynamic headers
\* with chosen HLIT / HDIST / run-length symbols, matches that point before the
\* start of the output, data that ends before its end-of-block symbol.

\* the blocks a stream is made of. tokens are what the block's data says; data is
\* used by dynamic blocks only and holds the bits of the tokens under the block's
\* own code.
FixedBlock(tokens, eob) ==
    [kind |-> "fixed", tokens |-> tokens, eob |-> eob, nlen_ok |-> TRUE,
     hlit |-> 0, hdist |-> 0, encoded |-> <<>>, data |-> <<>>, nocode |-> FALSE]

StoredBlock(bytes, nlen_ok) ==
    [kind |-> "stored", tokens |-> [k \in 1..Len(bytes) |-> Lit(bytes[k])], eob |-> TRUE,
     nlen_ok |-> nlen_ok, hlit |-> 0, hdist |-> 0, encoded |-> <<>>, data |-> <<>>,
     nocode |-> FALSE]

ReservedBlock ==
    [kind |-> "reserved", tokens |-> <<>>, eob |-> TRUE, nlen_ok |-> TRUE,
     hlit |-> 0, hdist |-> 0, encoded |-> <<>>, data |-> <<1, 0, 0, 1, 0, 0, 0, 1>>,
     nocode |-> FALSE]

DynamicBlock(hlit, hdist, encoded, tokens, data, eob, nocode) ==
    [kind |-> "dynamic", tokens |-> tokens, eob |-> eob, nlen_ok |-> TRUE,
     hlit |-> hlit, hdist |-> hdist, encoded |-> encoded, data |-> data, nocode |-> nocode]

\* run-length symbols of code-length lists that give 'a' (97) and the end-of-block
\* symbol codes of two bits ('a' = 00, end of block = 01; 10 and 11 are no code)
\* and distance code 0 a code of one bit.
ZerosTo97 == << <<18, <<7, 86>>>>, <<2, <<0, 0>>>>, <<18, <<7, 127>>>>, <<18, <<7, 9>>>> >>
Rle258 == ZerosTo97 \o << <<2, <<0, 0>>>>, <<1, <<0, 0>>>> >>
\* the same list with 30 more zero lengths: for HLIT = 287, and for HDIST = 31
Rle288Lit == ZerosTo97 \o << <<2, <<0, 0>>>>, <<18, <<7, 19>>>>, <<1, <<0, 0>>>> >>
Rle288Dist == ZerosTo97 \o << <<2, <<0, 0>>>>, <<1, <<0, 0>>>>, <<18, <<7, 19>>>> >>
\* the last symbol repeats the length 2 three times: 260 lengths for HLIT + HDIST = 258
RleOver16 == ZerosTo97 \o << <<2, <<0, 0>>>>, <<16, <<2, 0>>>> >>
\* the last symbol is a run of three zeros: 261 lengths for HLIT + HDIST = 259
RleOver17 == ZerosTo97 \o << <<2, <<0, 0>>>>, <<1, <<0, 0>>>>, <<17, <<3, 0>>>> >>

DataA == <<0, 0>>
DataEob == <<0, 1>>
DataNoCode == <<1, 1, 1>>

\* a run-length symbol read before HLIT + HDIST lengths are there stands for more
\* lengths than are missing
RECURSIVE overruns(_, _, _)
overruns(encoded, i, total) ==
    IF encoded = <<>> \/ i >= total THEN FALSE
    ELSE LET sym == encoded[1][1]
             v == encoded[1][2][2]
             n == IF sym <= 15 THEN 1 ELSE IF sym = 18 THEN 11 + v ELSE 3 + v
         IN  i + n > total \/ overruns(Tail(encoded), i + n, total)

DynamicBlocks ==
    { DynamicBlock(0, 0, Rle258, <<Lit(97), Lit(97)>>, DataA \o DataA \o DataEob, TRUE, FALSE),
      DynamicBlock(0, 0, Rle258, <<Lit(97)>>, DataA \o DataNoCode \o DataEob, FALSE, TRUE),
      DynamicBlock(0, 0, Rle258, <<Lit(97), Lit(97), Lit(97)>>, DataA \o DataA \o DataA,
                   FALSE, FALSE),
      DynamicBlock(30, 0, Rle288Lit, <<Lit(97)>>, DataA \o DataEob, TRUE, FALSE),
      DynamicBlock(0, 30, Rle288Dist, <<Lit(97)>>, DataA \o DataEob, TRUE, FALSE),
      DynamicBlock(0, 0, RleOver16, <<Lit(97)>>, DataA \o DataEob, TRUE, FALSE),
      DynamicBlock(0, 1, RleOver17, <<Lit(97)>>, DataA \o DataEob, TRUE, FALSE) }

FixedBlocks ==
    { FixedBlock(<<Lit(97), Lit(98)>>, TRUE),
      FixedBlock(<<Lit(97), Lit(98), MatchToken(2, 3)>>, TRUE),
      FixedBlock(<<MatchToken(1, 3), Lit(98)>>, TRUE),
      FixedBlock(<<Lit(97), MatchToken(5, 3)>>, TRUE),
      FixedBlock(<<Lit(97), Lit(98), MatchToken(3, 4), Lit(97)>>, TRUE),
      FixedBlock(<<Lit(97), Lit(98), Lit(97)>>, FALSE),
      FixedBlock(<<Lit(98)>>, FALSE) }

StoredBlocks ==
    { StoredBlock(<<97, 98, 99>>, TRUE), StoredBlock(<<>>, TRUE),
      StoredBlock(<<97, 98>>, FALSE) }

Decoders == {"src", "alg"}

\* what the format says a block does to the output written so far: the bytes it
\* appends, or the fault that ends decoding with the output as it is then.
RECURSIVE ref_tokens(_, _)
ref_tokens(tokens, out) ==
    IF tokens = <<>> THEN [fault |-> "", out |-> out]
    ELSE LET t == tokens[1]
         IN  IF t[1] = "lit" THEN ref_tokens(Tail(tokens), Append(out, t[2]))
             ELSE IF t[2] > Len(out) THEN [fault |-> "distance", out |-> out]
             ELSE ref_tokens(Tail(tokens),
                             out \o [k \in 1..t[3] |->
                                       out[Len(out) - t[2] + 1 + ((k - 1) % t[2])]])

ref_block(b, out) ==
    IF b.kind = "reserved" THEN [fault |-> "btype", out |-> out]
    ELSE IF b.kind = "stored"
         THEN (IF b.nlen_ok THEN ref_tokens(b.tokens, out)
               ELSE [fault |-> "nlen", out |-> out])
    ELSE IF b.kind = "dynamic" /\ b.hlit + 257 > 286 THEN [fault |-> "hlit", out |-> out]
    ELSE IF b.kind = "dynamic" /\ b.hdist + 1 > 30 THEN [fault |-> "hdist", out |-> out]
    ELSE IF b.kind = "dynamic" /\ overruns(b.encoded, 0, b.hlit + 257 + b.hdist + 1)
         THEN [fault |-> "overrun", out |-> out]
    ELSE LET r == ref_tokens(b.tokens, out)
         IN  IF r.fault # "" THEN r
             ELSE IF b.nocode THEN [fault |-> "nocode", out |-> r.out]
             ELSE IF ~b.eob THEN [fault |-> "truncated", out |-> r.out]
             ELSE r

\* the bits of a block appended to the bits before it
fixed_block_of(tokens, eob) ==
    [symbols |-> token_symbols(tokens, "alg") \o (IF eob THEN <<256>> ELSE <<>>),
     length_extra |-> token_length_extra(tokens, "alg")
                      \o (IF eob THEN << <<0, 0>> >> ELSE <<>>),
     distances |-> token_distances(tokens, "alg"),
     dist_extra |-> token_distance_extra(tokens, "alg")]

block_bits(bits, b, final) ==
    LET bfinal == write_bits_lsb(bits, final, 1)
    IN  IF b.kind = "fixed"
        THEN write_fixed_block(bits, fixed_block_of(b.tokens, b.eob), final = 1).bits
        ELSE IF b.kind = "reserved" THEN write_bits_lsb(bfinal, 3, 2) \o b.data
        ELSE IF b.kind = "stored"
             THEN LET n == Len(b.tokens)
                      head == byte_align_write(write_bits_lsb(bfinal, 0, 2))
                      len == write_bits_lsb(head, n, 16)
                      nlen == write_bits_lsb(len, IF b.nlen_ok THEN 65535 - n ELSE n, 16)
                  IN  write_ext_bytes(nlen, [k \in 1..n |-> b.tokens[k][2]], 1)
        ELSE LET cl_canon_codes ==
                     tree_canon_codes(Counter([k \in 1..Len(b.encoded) |-> b.encoded[k][1]]))
                 hclen == tree_hclen(cl_canon_codes)
                 b1 == write_bits_lsb(write_bits_lsb(bfinal, 2, 2), b.hlit, 5)
                 b2 == write_bits_lsb(b1, b.hdist, 5)
                 b3 == write_bits_lsb(b2, hclen - 4, 4)
             IN  write_rle_symbols([err |-> "", k |-> 0,
                                    bits |-> write_cl_lengths(b3, cl_canon_codes, 0, hclen)],
                                   b.encoded, cl_canon_codes).bits
                 \o b.data

\* a stream of one or two blocks: the file, and what the format says of it
stream_of(decoder, blocks) ==
    LET n == Len(blocks)
        start == IF decoder = "alg" THEN write_ext_header(<<>>) ELSE <<>>
        b1 == block_bits(start, blocks[1], IF n = 1 THEN 1 ELSE 0)
        bits == IF n = 1 THEN b1 ELSE block_bits(b1, blocks[2], 1)
        r1 == ref_block(blocks[1], <<>>)
        r == IF n = 1 THEN r1 ELSE ref_block(blocks[2], r1.out)
        cut == r.fault = "truncated"
    IN  [pc |-> "call", decoder |-> decoder, blocks |-> blocks,
         file |-> IF cut THEN tofile(SubSeq(bits, 1, 8 * (Len(bits) \div 8)))
                  ELSE flush_to_file(bits),
         fault |-> r.fault, before |-> r.out, start |-> IF n = 1 THEN <<>> ELSE r1.out,
         bits |-> <<>>, pos |-> 0, decoded_data |-> <<>>, is_final_block |-> FALSE,
         exit |-> "", headers |-> <<>>, result |-> <<>>]

\* the first block of a two-block stream is one the format accepts
LeadBlocks ==
    { FixedBlock(<<Lit(97), Lit(98)>>, TRUE),
      FixedBlock(<<Lit(97), Lit(98), MatchToken(2, 3)>>, TRUE),
      StoredBlock(<<97, 98, 99>>, TRUE) }

\* decompress_file supports no dynamic block: it gets no stream that holds one.
BlocksFor(decoder) ==
    FixedBlocks \cup StoredBlocks \cup {ReservedBlock}
    \cup (IF decoder = "src" THEN DynamicBlocks ELSE {})

InitStream ==
    /\ \E decoder \in Decoders :
         \E last \in BlocksFor(decoder) :
            \/ stm = stream_of(decoder, <<last>>)
            \/ \E lead \in LeadBlocks : stm = stream_of(decoder, <<lead, last>>)
    /\ mapping = Off /\ canon = Off /\ huff = Off /\ lz = Off /\ enc = Off
    /\ dec = Off /\ blk = Off /\ rle = Off /\ inf = Off /\ bio = Off
    /\ fnd = Off /\ win = Off /\ turns = Off

\* BitReader(input_file); decompress_file then reads the extension header (any
\* exception there is a ValueError), decompress goes straight to the blocks.
StreamOpen ==
    /\ stm.pc = "call"
    /\ LET bits == fromfile(stm.file)
           ext_len == read_bits_lsb(bits, 0, 8)
           ext_bytes == read_ext_bytes(bits, ext_len.pos, ext_len.val)
       IN  stm' = IF stm.decoder = "src" THEN [stm EXCEPT !.bits = bits, !.pc = "blocks"]
                  ELSE IF ext_len.eof \/ ext_bytes.eof
                       THEN [stm EXCEPT !.bits = bits, !.exit = "ValueError", !.pc = "raised"]
                       ELSE [stm EXCEPT !.bits = bits, !.pos = ext_bytes.pos, !.pc = "blocks"]

\* one turn of "while not is_final_block" of the decoder: an exception leaves the
\* method ("raised"), a break or a final block leads to the output being written.
StreamBlock ==
    /\ stm.pc = "blocks"
    /\ ~stm.is_final_block
    /\ LET st == IF stm.decoder = "src" THEN src_decompress_block(stm)
                 ELSE decompress_block(stm)
       IN  stm' = [st EXCEPT !.pc = IF st.exit \in {"ValueError", "EOFError"} THEN "raised"
                                    ELSE IF st.exit = "break" \/ st.is_final_block
                                         THEN "write"
                                         ELSE "blocks"]

\* the decoded bytes are written to the output file and returned.
StreamWrite ==
    /\ stm.pc = "write"
    /\ stm' = [stm EXCEPT !.result = stm.decoded_data, !.pc = "done"]

NextStream ==
    (StreamOpen \/ StreamBlock \/ StreamWrite)
    /\ UNCHANGED <<mapping, canon, huff, lz, enc, dec, blk, rle, inf, bio, fnd, win, turns>>

SpecStream == InitStream /\ [][NextStream]_vars

\* the block the format faults has been read
FaultSeen == stm.pc \in {"blocks", "write", "done", "raised"}
             /\ Len(stm.headers) = Len(stm.blocks)

\* Deflate.decompress and decompress_file both refuse a match that points before
\* the start of the output, with the output as it was before the match
\* (decompress_file on streams of fixed blocks: it drops the bytes of a stored one).
DeflateRejectsFarDistance ==
    (stm.pc # "off" /\ FaultSeen /\ stm.fault = "distance"
        /\ (stm.decoder = "src" \/ \A k \in 1..Len(stm.blocks) : stm.blocks[k].kind = "fixed"))
        => (stm.pc = "raised" /\ stm.exit = "ValueError" /\ stm.decoded_data = stm.before)

\* a stream the format faults nowhere is decoded to the bytes the format says,
\* overlapping matches included (decompress_file on streams of fixed blocks).
ValidStreamDecoded ==
    (stm.pc = "done" /\ stm.fault = ""
        /\ (stm.decoder = "src" \/ \A k \in 1..Len(stm.blocks) : stm.blocks[k].kind = "fixed"))
        => stm.result = stm.before

\* the turn of the block loop that reads the last block of the stream
ReadsLast == stm.pc = "blocks" /\ Len(stm.headers) = Len(stm.blocks) - 1

\* C12: a block of type 3 is refused with an error by Deflate.decompress and by
\* decompress_file, and _decompress_32kb_block refuses a header with HLIT > 286 or
\* HDIST > 30; the turn that reads such a block raises ValueError and leaves the
\* output buffer as it was before the block.
C12_ReservedAndRangeRejected ==
    [][(ReadsLast /\ stm.fault \in {"btype", "hlit", "hdist"})
          => (stm'.pc = "raised" /\ stm'.exit = "ValueError"
              /\ stm'.decoded_data = stm.decoded_data)]_vars

\* a header with HLIT = 287 after a block that gave output: refused, output kept.
C12_Witness ==
    /\ stm.pc = "raised"
    /\ stm.fault = "hlit"
    /\ stm.exit = "ValueError"
    /\ Len(stm.headers) = 2
    /\ stm.decoded_data = stm.start
    /\ stm.start # <<>>

\* the reserved type and the HDIST bound are reached as well.
ReservedSeen == stm.pc = "raised" /\ stm.fault = "btype" /\ stm.decoder = "alg"
HdistSeen == stm.pc = "raised" /\ stm.fault = "hdist" /\ stm.headers = << <<1, 2>> >>

\* C13: a run-length symbol that carries the code-length list past HLIT + HDIST
\* entries makes the decoder raise an error.
C13_OverrunRejected ==
    (stm.pc # "off" /\ FaultSeen /\ stm.fault = "overrun") => stm.pc = "raised"

\* C14: a stream that ends inside a literal/length symbol, or that holds bits that
\* are no code of the literal/length tree, never ends in a successful return.
C14_NoSilentTruncation ==
    stm.pc = "done" => stm.fault \notin {"truncated", "nocode"}

\* C15: the turn that reads a stored block raises an error when NLEN is not the
\* complement of LEN, and otherwise appends the LEN bytes of the block to the
\* output and leaves the reader behind them.
C15_StoredBlock ==
    [][(ReadsLast /\ stm.blocks[Len(stm.blocks)].kind = "stored")
          => IF stm.fault = "nlen" THEN stm'.pc = "raised" /\ stm'.exit = "ValueError"
             ELSE /\ stm'.exit = ""
                  /\ stm'.decoded_data
                       = stm.decoded_data
                         \o [k \in 1..Len(stm.blocks[Len(stm.blocks)].tokens) |->
                               stm.blocks[Len(stm.blocks)].tokens[k][2]]
                  /\ stm'.pos = Len(stm.bits)]_vars

\* Deflate.decompress of src/deflate.py alone does all of it.
SrcStoredBlock ==
    [][(ReadsLast /\ stm.decoder = "src" /\ stm.blocks[Len(stm.blocks)].kind = "stored")
          => IF stm.fault = "nlen" THEN stm'.pc = "raised" /\ stm'.exit = "ValueError"
             ELSE /\ stm'.exit = ""
                  /\ stm'.decoded_data
                       = stm.decoded_data
                         \o [k \in 1..Len(stm.blocks[Len(stm.blocks)].tokens) |->
                               stm.blocks[Len(stm.blocks)].tokens[k][2]]
                  /\ stm'.pos = Len(stm.bits)]_vars

\* ----------------------------- specification: the final flag and the block loop
\*
\* the block decoders on streams of blocks the format accepts, each block with a
\* final flag of its own: streams whose final block is followed by further blocks
\* and streams in which no block carries the flag.

MaxBlocks == 2          \* blocks per stream

FlagBlocks(decoder) ==
    LeadBlocks
    \cup (IF decoder = "src"
          THEN {DynamicBlock(0, 0, Rle258, <<Lit(97), Lit(97)>>, DataA \o DataA \o DataEob,
                             TRUE, FALSE)}
          ELSE {})

\* the bits of the blocks one after the other, and the position at which each ends
RECURSIVE blocks_bits(_, _, _, _, _)
blocks_bits(bits, blocks, flags, k, ends) ==
    IF k > Len(blocks) THEN [bits |-> bits, ends |-> ends]
    ELSE LET next == block_bits(bits, blocks[k], flags[k])
         IN  blocks_bits(next, blocks, flags, k + 1, Append(ends, Len(next)))

\* the index of the first block that carries the final flag, 0 when none does
first_final(flags) ==
    IF \E k \in 1..Len(flags) : flags[k] = 1
    THEN CHOOSE k \in 1..Len(flags) : flags[k] = 1 /\ \A j \in 1..(k - 1) : flags[j] = 0
    ELSE 0

\* what the format says the blocks 1 .. n append to the output
RECURSIVE ref_blocks(_, _, _, _)
ref_blocks(blocks, k, n, out) ==
    IF k > n THEN out ELSE ref_blocks(blocks, k + 1, n, ref_block(blocks[k], out).out)

flagged_stream(decoder, blocks, flags) ==
    LET start == IF decoder = "alg" THEN write_ext_header(<<>>) ELSE <<>>
        w == blocks_bits(start, blocks, flags, 1, <<>>)
        last == first_final(flags)
    IN  [pc |-> "call", decoder |-> decoder, blocks |-> blocks, flags |-> flags,
         ends |-> w.ends, file |-> flush_to_file(w.bits),
         fault |-> IF last = 0 THEN "nofinal" ELSE "",
         before |-> ref_blocks(blocks, 1, last, <<>>), start |-> <<>>,
         bits |-> <<>>, pos |-> 0, decoded_data |-> <<>>, is_final_block |-> FALSE,
         exit |-> "", headers |-> <<>>, result |-> <<>>]

InitFinal ==
    /\ \E decoder \in Decoders : \E n \in 1..MaxBlocks :
         \E blocks \in [1..n -> FlagBlocks(decoder)], flags \in [1..n -> {0, 1}] :
            stm = flagged_stream(decoder, Tuple(blocks), Tuple(flags))
    /\ mapping = Off /\ canon = Off /\ huff = Off /\ lz = Off /\ enc = Off
    /\ dec = Off /\ blk = Off /\ rle = Off /\ inf = Off /\ bio = Off
    /\ fnd = Off /\ win = Off /\ turns = Off

SpecFinal == InitFinal /\ [][NextStream]_vars

\* the BTYPE field of a block
btype_of(b) ==
    CASE b.kind = "stored" -> 0 [] b.kind = "fixed" -> 1 [] b.kind = "dynamic" -> 2
      [] OTHER -> 3

\* the headers read so far are those of the first blocks of the stream, in order
headers_in_order ==
    /\ Len(stm.headers) <= Len(stm.blocks)
    /\ \A j \in 1..Len(stm.headers) :
         stm.headers[j] = <<stm.flags[j], btype_of(stm.blocks[j])>>

\* C24: the decoders read the blocks in stream order and return successfully only
\* after the block that carries the final flag has been decoded to its end; no
\* bit after that block is read, and a stream in which no block carries the flag
\* does not end in a successful return.
C24_FinalBlockEndsDecoding ==
    stm.pc # "off" =>
        LET last == first_final(stm.flags)
        IN  /\ last > 0 => (Len(stm.headers) <= last /\ stm.pos <= stm.ends[last])
            /\ last > 0 => headers_in_order
            /\ stm.pc = "done" =>
                 (last > 0 /\ Len(stm.headers) = last /\ stm.pos = stm.ends[last])

\* with a final flag in the stream the claim holds for both decoders
FinalFlagEndsDecoding ==
    (stm.pc # "off" /\ first_final(stm.flags) > 0) =>
        LET last == first_final(stm.flags)
        IN  /\ Len(stm.headers) <= last /\ stm.pos <= stm.ends[last]
            /\ headers_in_order
            /\ stm.pc = "done" => (Len(stm.headers) = last /\ stm.pos = stm.ends[last])
            /\ stm.pc # "raised"

\* without one, Deflate.decompress of src/deflate.py ends in an exception
NoFinalFlagRaises ==
    (stm.pc # "off" /\ stm.decoder = "src" /\ first_final(stm.flags) = 0)
        => stm.pc # "done"

\* and decompress_file returns what it has decoded by the end of the file
NoFinalFlagReturned ==
    /\ stm.pc = "done" /\ stm.decoder = "alg" /\ first_final(stm.flags) = 0
    /\ Len(stm.blocks) = 2 /\ stm.result # <<>>

\* a block after the final one is left unread
BlockAfterFinalUnread ==
    /\ stm.pc = "done" /\ stm.flags = <<1, 0>> /\ Len(stm.headers) = 1
    /\ stm.pos = stm.ends[1]

\* ------------------------------------------------- specification: the Inflater
\*
\* Inflater.process on what its input stream delivers: block headers, the bytes of
\* stored blocks, and the symbols of Huffman blocks already decoded to literals and
\* (length, distance) pairs (the code tables of huffman_coding that
\* _read_symbol needs are not part of the repository).

MaxTokens == 3          \* symbols processed in one run
MaxDist == 7            \* largest match distance
MaxMatch == 4           \* largest match length
Literals == {97, 98}
StoredData == { <<>>, <<97, 98>> }

NoPair == [kind |-> "none", dist |-> 0, length |-> 0, before |-> <<>>]

InitInflater ==
    /\ inf = [pc |-> "header", bfinal |-> 0, out |-> <<>>, window |-> <<>>, err |-> "",
              n |-> 0, last |-> NoPair]
    /\ mapping = Off /\ canon = Off /\ huff = Off /\ lz = Off /\ enc = Off
    /\ dec = Off /\ blk = Off /\ rle = Off /\ stm = Off /\ bio = Off
    /\ fnd = Off /\ win = Off /\ turns = Off

\* process: bfinal = read_bits(1); btype = read_bits(2); a stored block is handled
\* at once, a Huffman block goes on with its symbols, type 3 raises ValueError.
InflaterHeader ==
    /\ inf.pc = "header"
    /\ inf.n < MaxTokens
    /\ \E bfinal \in {0, 1}, btype \in 0..3 :
         IF btype = 3
         THEN inf' = [inf EXCEPT !.bfinal = bfinal, !.err = "ValueError", !.pc = "raised",
                                 !.last = [NoPair EXCEPT !.kind = "reserved",
                                                         !.before = inf.out]]
         ELSE IF btype = 0
         THEN \E data \in StoredData, nlen_ok \in BOOLEAN :
                LET st == _process_uncompressed(
                              inf, Len(data),
                              IF nlen_ok THEN 65535 - Len(data) ELSE Len(data), data)
                IN  inf' = [st EXCEPT !.bfinal = bfinal, !.n = @ + 1,
                                      !.last = [NoPair EXCEPT !.kind = "stored",
                                                              !.before = inf.out],
                                      !.pc = IF st.err # "" THEN "raised"
                                             ELSE IF bfinal = 1 THEN "done" ELSE "header"]
         ELSE inf' = [inf EXCEPT !.bfinal = bfinal, !.pc = "huffman", !.last = NoPair]

\* _process_huffman, a literal symbol.
InflaterLiteral ==
    /\ inf.pc = "huffman"
    /\ inf.n < MaxTokens
    /\ \E sym \in Literals :
         inf' = [process_literal(inf, sym) EXCEPT !.n = @ + 1, !.last = NoPair]

\* _process_huffman, a length symbol: the pair that _decode_pair returns.
InflaterPair ==
    /\ inf.pc = "huffman"
    /\ inf.n < MaxTokens
    /\ \E dist \in 1..MaxDist, length \in 3..MaxMatch :
         LET st == process_pair(inf, dist, length)
         IN  inf' = [st EXCEPT !.n = @ + 1,
                               !.last = [kind |-> "pair", dist |-> dist, length |-> length,
                                         before |-> inf.out],
                               !.pc = IF st.err # "" THEN "raised" ELSE "huffman"]

\* _process_huffman, the end-of-block symbol: break, and process tests bfinal.
InflaterEndOfBlock ==
    /\ inf.pc = "huffman"
    /\ inf' = [inf EXCEPT !.pc = IF inf.bfinal = 1 THEN "done" ELSE "header",
                          !.last = NoPair]

NextInflater ==
    (InflaterHeader \/ InflaterLiteral \/ InflaterPair \/ InflaterEndOfBlock)
    /\ UNCHANGED <<mapping, canon, huff, lz, enc, dec, blk, rle, stm, bio, fnd, win, turns>>

SpecInflater == InitInflater /\ [][NextInflater]_vars

\* the bytes of a match of the given distance and length after the output "before"
match_bytes(before, dist, length) ==
    [k \in 1..length |-> before[Len(before) - dist + 1 + ((k - 1) % dist)]]

FirstFarDistanceRejected ==
    (inf.pc # "off" /\ inf.last.kind = "pair" /\ inf.last.dist > Len(inf.last.before)
        /\ inf.window = inf.out)
        => (inf.pc = "raised" /\ inf.err = "IndexError" /\ inf.out = inf.last.before)

\* C20: a match within the output appends, byte for byte, the output as it stands
\* dist bytes back after the byte before was appended; with distance 1 that is
\* length copies of the last byte.
C20_MatchCopy ==
    (inf.pc # "off" /\ inf.last.kind = "pair" /\ inf.last.dist <= Len(inf.last.before))
        => (inf.err = ""
            /\ inf.out = inf.last.before
                         \o match_bytes(inf.last.before, inf.last.dist, inf.last.length))

\* with distance 1 the Inflater does append length copies of the last byte.
DistanceOneRepeatsLastByte ==
    (inf.pc # "off" /\ inf.last.kind = "pair" /\ inf.last.dist = 1
        /\ inf.last.before # <<>>)
        => inf.out = inf.last.before
                     \o [k \in 1..inf.last.length |-> inf.last.before[Len(inf.last.before)]]

\* a block of type 3 makes process raise ValueError with nothing written.
InflaterRejectsReserved ==
    (inf.pc # "off" /\ inf.last.kind = "reserved")
        => (inf.pc = "raised" /\ inf.err = "ValueError" /\ inf.out = inf.last.before)

\* ------------------------------------- specification: the bit reader and writers

MaxBits == 3
MaxFields == 2
MaxStream == 12

Classes == {"BitWriter", "BitOutputStream"}
NoAlign == [op |-> "none", before |-> <<>>, after |-> <<>>]
NoRead == [op |-> "none", n |-> 0, eof |-> FALSE, val |-> NoValue, before |-> 0, back |-> 0]

\* BitWriter.__init__ (an empty bitarray) or BitOutputStream.__init__.
InitBits ==
    /\ \E cls \in Classes :
         bio = [pc |-> "writing", cls |-> cls, bits |-> <<>>, fields |-> <<>>,
                out |-> NewBitOutputStream, aligned |-> NoAlign,
                rbits |-> <<>>, pos |-> 0, sync |-> 0, last |-> NoRead]
    /\ mapping = Off /\ canon = Off /\ huff = Off /\ lz = Off /\ enc = Off
    /\ dec = Off /\ blk = Off /\ rle = Off /\ stm = Off /\ inf = Off
    /\ fnd = Off /\ win = Off /\ turns = Off

\* BitWriter.write_bits_msb(value, length) or write_bits_lsb(value, length) with
\* 0 <= value < 2^length; "at" is the number of bits written before the field.
BitsWrite ==
    /\ bio.pc = "writing" /\ bio.cls = "BitWriter" /\ Len(bio.fields) < MaxFields
    /\ \E op \in {"msb", "lsb"} : \E n \in 0..MaxBits : \E value \in 0..(2^n - 1) :
         bio' = [bio EXCEPT
                   !.bits = IF op = "msb" THEN write_bits_msb(bio.bits, value, n)
                            ELSE write_bits_lsb(bio.bits, value, n),
                   !.fields = Append(@, [op |-> op, value |-> value, n |-> n,
                                         at |-> Len(bio.bits)]),
                   !.aligned = NoAlign]

\* BitWriter.byte_align between two fields.
BitsAlign ==
    /\ bio.pc = "writing" /\ bio.cls = "BitWriter" /\ Len(bio.fields) < MaxFields
    /\ LET after == byte_align_write(bio.bits)
       IN  bio' = [bio EXCEPT
                     !.bits = after,
                     !.fields = Append(@, [op |-> "align", value |-> 0, n |-> 0,
                                           at |-> Len(bio.bits)]),
                     !.aligned = [op |-> "byte_align", before |-> bio.bits,
                                  after |-> after]]

\* BitWriter.flush_to_file(filename), then BitReader(filename): the reader holds
\* the bits of the file and starts at position 0.
BitsFlush ==
    /\ bio.pc = "writing" /\ bio.cls = "BitWriter"
    /\ LET file == flush_to_file(bio.bits)
       IN  bio' = [bio EXCEPT
                     !.pc = "reading",
                     !.aligned = [op |-> "flush_to_file", before |-> bio.bits,
                                  after |-> fromfile(file)],
                     !.rbits = fromfile(file), !.pos = 0, !.sync = 1]

\* one call of the reader: read_bit, read_bits_lsb(n), read_bits_msb(n), byte_align
reader_call(op, bits, pos, n) ==
    CASE op = "bit" -> read_bit(bits, pos)
      [] op = "lsb" -> read_bits_lsb(bits, pos, n)
      [] op = "msb" -> read_bits_msb(bits, pos, n)
      [] OTHER -> [eof |-> FALSE, val |-> 0, pos |-> byte_align_read(pos)]

\* what the caller is left with: the value, or nothing when EOFError was raised
read_result(op, n, r, before, back) ==
    [op |-> op, n |-> n, eof |-> r.eof, val |-> IF r.eof THEN NoValue ELSE r.val,
     before |-> before, back |-> back]

\* the reader reads the next written field back: the same width with the
\* matching method, byte_align for a byte_align.
BitsReadBack ==
    /\ bio.pc = "reading" /\ bio.sync \in 1..Len(bio.fields)
    /\ LET f == bio.fields[bio.sync]
           r == reader_call(f.op, bio.rbits, bio.pos, f.n)
       IN  bio' = [bio EXCEPT !.pos = r.pos, !.sync = @ + 1,
                              !.last = read_result(f.op, f.n, r, bio.pos, bio.sync)]

\* any other call of the reader, with any width
BitsRead ==
    /\ bio.pc = "reading"
    /\ \E op \in {"bit", "lsb", "msb"} : \E n \in 0..MaxBits :
         /\ op = "bit" => n = 1
         /\ LET r == reader_call(op, bio.rbits, bio.pos, n)
            IN  bio' = [bio EXCEPT !.pos = r.pos, !.sync = 0,
                                   !.last = read_result(op, n, r, bio.pos, 0)]

\* BitOutputStream.write_bits(v, n)
BitOutputWrite ==
    /\ bio.pc = "writing" /\ bio.cls = "BitOutputStream"
    /\ \E n \in 0..MaxBits : \E v \in 0..(2^n - 1) :
         /\ 8 * Len(bio.out.bytes) + bio.out.bit_pos + n <= MaxStream
         /\ bio' = [bio EXCEPT !.out = write_bits(bio.out, v, n), !.aligned = NoAlign]

\* BitOutputStream.flush_bits()
BitOutputFlush ==
    /\ bio.pc = "writing" /\ bio.cls = "BitOutputStream"
    /\ bio.aligned.op = "none"
    /\ LET after == flush_bits(bio.out)
       IN  bio' = [bio EXCEPT !.out = after,
                              !.aligned = [op |-> "flush_bits",
                                           before |-> stream_bits(bio.out),
                                           after |-> stream_bits(after)]]

NextBits ==
    (BitsWrite \/ BitsAlign \/ BitsFlush \/ BitsReadBack \/ BitsRead
       \/ BitOutputWrite \/ BitOutputFlush)
    /\ UNCHANGED <<mapping, canon, huff, lz, enc, dec, blk, rle, stm, inf, fnd, win, turns>>

SpecBits == InitBits /\ [][NextBits]_vars

\* C16: read_bit, read_bits_lsb(n) and read_bits_msb(n) raise EOFError whenever
\* fewer bits remain than were asked for; nothing is returned and the position is
\* what it was before the call.
C16_EofLeavesPosition ==
    (bio.pc = "reading" /\ bio.last.op \in {"bit", "lsb", "msb"}
       /\ Len(bio.rbits) - bio.last.before < bio.last.n)
        => (bio.last.eof /\ bio.last.val = NoValue /\ bio.pos = bio.last.before)

\* an LSB read of more bits than the one to three that remain
C16_Witness ==
    /\ bio.pc = "reading" /\ bio.last.op = "lsb" /\ bio.last.eof
    /\ Len(bio.rbits) - bio.last.before \in 1..(bio.last.n - 1)

\* the same at the very end of the stream, for read_bit and read_bits_msb
EofAtEndSeen ==
    /\ bio.pc = "reading" /\ bio.last.op \in {"bit", "msb"} /\ bio.last.eof
    /\ bio.last.before = Len(bio.rbits) /\ Len(bio.rbits) > 0

\* a read that the remaining bits can serve does not raise
ReadWithinStream ==
    (bio.pc = "reading" /\ bio.last.op \in {"bit", "lsb", "msb"}
       /\ Len(bio.rbits) - bio.last.before >= bio.last.n)
        => (~bio.last.eof /\ bio.pos = bio.last.before + bio.last.n)

\* C17: fields written with write_bits_msb / write_bits_lsb (0 <= v < 2^n) and
\* read back in the same order with the same widths and the matching method give
\* the same values; each read starts where the field was written, so no bit is
\* read twice or skipped, and advances the position by exactly n.
C17_RoundTrip ==
    (bio.pc = "reading" /\ bio.last.back > 0)
        => LET f == bio.fields[bio.last.back]
           IN  /\ ~bio.last.eof
               /\ bio.last.before = f.at
               /\ f.op # "align" => (bio.last.val = f.value /\ bio.pos = f.at + f.n)

\* the MSB field 1 of two bits and then the LSB field 3 of three bits, read back
C17_Witness ==
    /\ bio.pc = "reading" /\ bio.last.back = 2 /\ Len(bio.fields) = 2
    /\ bio.fields[1] = [op |-> "msb", value |-> 1, n |-> 2, at |-> 0]
    /\ bio.fields[2] = [op |-> "lsb", value |-> 3, n |-> 3, at |-> 2]
    /\ bio.last.val = 3 /\ bio.pos = 5

\* an alignment appended only zero bits, as many as reach the next byte boundary
pads_with_zeros(before, after) ==
    /\ Len(after) = Len(before) + ((8 - (Len(before) % 8)) % 8)
    /\ \A k \in 1..Len(before) : after[k] = before[k]
    /\ \A k \in (Len(before) + 1)..Len(after) : after[k] = 0

\* C18: BitWriter.byte_align, BitWriter.flush_to_file and
\* BitOutputStream.flush_bits append only zero bits, exactly as many as reach the
\* next byte boundary, and nothing when the stream is already aligned.
C18_ZeroPadding ==
    (bio.pc # "off" /\ bio.aligned.op # "none")
        => pads_with_zeros(bio.aligned.before, bio.aligned.after)

\* the two alignments of BitWriter do so
BitWriterPadsWithZeros ==
    (bio.pc # "off" /\ bio.aligned.op \in {"byte_align", "flush_to_file"})
        => pads_with_zeros(bio.aligned.before, bio.aligned.after)

\* flush_bits reaches the byte boundary, and fills the byte with one bits
FlushBitsPadsWithOnes ==
    (bio.pc # "off" /\ bio.aligned.op = "flush_bits")
        => /\ Len(bio.aligned.after) = Len(bio.aligned.before)
                                        + ((8 - (Len(bio.aligned.before) % 8)) % 8)
           /\ \A k \in 1..Len(bio.aligned.before) :
                bio.aligned.after[k] = bio.aligned.before[k]
           /\ \A k \in (Len(bio.aligned.before) + 1)..Len(bio.aligned.after) :
                bio.aligned.after[k] = 1

\* --------------------------------------- specification: find_match call by call

MaxFind == 11           \* every buffer of 0 .. MaxFind bytes over FindAlphabet
FindAlphabet == {97, 98}
FindWindows == {6, 40000}

FindBuffers == UNION {[1..n -> FindAlphabet] : n \in 0..MaxFind}

NoCall == [position |-> -1, candidates |-> <<>>, match |-> NoMatch]

\* LZ77(window_size) and "tokens = []; hash_table = {}; i = 0" of compress.
InitFind ==
    /\ \E data \in FindBuffers, w \in FindWindows, mod \in Modules77 :
         fnd = [pc |-> "loop", mod |-> mod, data |-> Tuple(data),
                window_size |-> lz77_window_size(w), i |-> 0,
                hash_table |-> << >>, tokens |-> <<>>, last |-> NoCall]
    /\ mapping = Off /\ canon = Off /\ huff = Off /\ lz = Off /\ enc = Off
    /\ dec = Off /\ blk = Off /\ rle = Off /\ stm = Off /\ inf = Off /\ bio = Off
    /\ win = Off /\ turns = Off

\* find_match: the candidates the search of a call visits, i.e. the positions
\* listed under the key of the three bytes at current_position after the
\* insertion of current_position - 2, at a distance of 1 .. window_size - 1.
candidates_seen(data, current_position, hash_table, window_size) ==
    LET added == IF current_position >= 2
                 THEN hash_append(hash_table,
                                  slice(data, current_position - 2, current_position + 1),
                                  current_position - 2)
                 ELSE hash_table
        key == slice(data, current_position, current_position + 3)
    IN  IF current_position + 2 < Len(data) /\ key \in DOMAIN added
        THEN SelectSeq(added[key],
                       LAMBDA pos : /\ current_position - pos >= 1
                                    /\ current_position - pos <= window_size - 1)
        ELSE <<>>

\* find_match of the module
find_match_of(mod, data, current_position, hash_table, window_size) ==
    IF mod = "alg" THEN alg_find_match(data, current_position, hash_table, window_size)
    ELSE src_find_match(data, current_position, hash_table, window_size)

\* one turn of "while i < len(data)": find_match at i, then the token.
FindMatch ==
    /\ fnd.pc = "loop"
    /\ fnd.i < Len(fnd.data)
    /\ LET st == IF fnd.mod = "alg" THEN alg_compress_step(fnd) ELSE src_compress_step(fnd)
           r == find_match_of(fnd.mod, fnd.data, fnd.i, fnd.hash_table, fnd.window_size)
       IN  fnd' = [st EXCEPT !.last =
                      [position |-> fnd.i,
                       candidates |-> candidates_seen(fnd.data, fnd.i, fnd.hash_table,
                                                      fnd.window_size),
                       match |-> r.match]]

\* the loop ends at the end of the data
FindEnd ==
    /\ fnd.pc = "loop"
    /\ fnd.i >= Len(fnd.data)
    /\ fnd' = [fnd EXCEPT !.pc = "done"]

NextFind ==
    (FindMatch \/ FindEnd)
    /\ UNCHANGED <<mapping, canon, huff, lz, enc, dec, blk, rle, stm, inf, bio, win, turns>>

SpecFind == InitFind /\ [][NextFind]_vars

\* the match lengths of the candidates of the last call
candidate_lengths(call) ==
    {match_length_at(fnd.data, call.candidates[k], call.position) :
        k \in 1..Len(call.candidates)}

\* C22: find_match returns the candidate of maximum match length among the
\* hash-table candidates inside the window, and among the candidates of that
\* length the one at the smallest distance.
C22_LongestThenNearest ==
    (fnd.pc # "off" /\ fnd.last.position >= 0) =>
        LET call == fnd.last
            best == SetMax(candidate_lengths(call) \cup {0})
            nearest == SetMax({call.candidates[k] : k \in
                          {j \in 1..Len(call.candidates) :
                              match_length_at(fnd.data, call.candidates[j], call.position)
                                  = best}})
        IN  IF best >= 3
            THEN call.match = Match(call.position - nearest, best)
            ELSE call.match = NoMatch

\* what find_match does return: the maximum length, at the largest distance that
\* reaches it (the first candidate of the list wins a tie).
LongestThenFarthest ==
    (fnd.pc # "off" /\ fnd.last.position >= 0) =>
        LET call == fnd.last
            best == SetMax(candidate_lengths(call) \cup {0})
            farthest == CHOOSE c \in {call.candidates[k] : k \in 1..Len(call.candidates)} :
                          /\ match_length_at(fnd.data, c, call.position) = best
                          /\ \A j \in 1..Len(call.candidates) :
                               match_length_at(fnd.data, call.candidates[j], call.position)
                                   = best => call.candidates[j] >= c
        IN  IF best >= 3
            THEN call.match = Match(call.position - farthest, best)
            ELSE call.match = NoMatch

\* a call at which two candidates reach the maximum length
TieSeen ==
    /\ fnd.pc # "off" /\ fnd.last.match.found
    /\ \E j, k \in 1..Len(fnd.last.candidates) :
         /\ j # k
         /\ match_length_at(fnd.data, fnd.last.candidates[j], fnd.last.position)
              = fnd.last.match.length
         /\ match_length_at(fnd.data, fnd.last.candidates[k], fnd.last.position)
              = fnd.last.match.length

\* the positions listed in the hash table under the three bytes they start
in_hash_table(hash_table, data, q) ==
    LET key == slice(data, q, q + 3)
    IN  /\ key \in DOMAIN hash_table
        /\ \E k \in 1..Len(hash_table[key]) : hash_table[key][k] = q

\* the positions i+1 .. i+L-1 skipped by the match tokens emitted before position c
skipped_before(tokens, c) ==
    UNION {(token_position(tokens, k) + 1)..(token_position(tokens, k) + tokens[k][3] - 1) :
             k \in {j \in 1..Len(tokens) :
                      tokens[j][1] = "match" /\ token_position(tokens, j) < c}}

\* C23: after a Match of length L at position i, each skipped position
\* i+1 .. i+L-1 that starts three bytes of the data is in the hash table, so that
\* a later find_match has it among its candidates: at every later call, at
\* position c, the table holds each skipped position up to c - 2 that lies inside
\* the window.
C23_SkippedPositionsInserted ==
    (fnd.pc # "off" /\ fnd.last.position >= 0) =>
        \A q \in skipped_before(fnd.tokens, fnd.last.position) :
            (/\ q + 3 <= Len(fnd.data)
             /\ q <= fnd.last.position - 2
             /\ fnd.last.position - q <= fnd.window_size - 1)
                => in_hash_table(fnd.hash_table, fnd.data, q)

\* what the table of src/LZ77.py holds after a call at position c: the positions
\* c' - 2 of the calls made so far, and the calls are made at the token starts
\* only.
InsertedAtCallsOnly ==
    (fnd.pc # "off" /\ fnd.mod = "src") =>
        UNION {{fnd.hash_table[key][k] : k \in 1..Len(fnd.hash_table[key])} :
                 key \in DOMAIN fnd.hash_table}
          = {token_position(fnd.tokens, k) - 2 :
               k \in {j \in 1..Len(fnd.tokens) : token_position(fnd.tokens, j) >= 2}}

\* C28: every Match returned by find_match has length <= distance, so that no
\* match has distance 1 and a run of equal bytes is not coded as one.
C28_NoOverlap ==
    fnd.pc # "off" =>
        /\ fnd.last.match.found => fnd.last.match.length <= fnd.last.match.distance
        /\ \A k \in 1..Len(fnd.tokens) :
             fnd.tokens[k][1] = "match" =>
                 (fnd.tokens[k][3] <= fnd.tokens[k][2] /\ fnd.tokens[k][2] # 1)

\* a run of nine equal bytes: three literals, then matches as long as their distance
C28_Witness ==
    /\ fnd.pc = "done" /\ Len(fnd.data) = 9
    /\ \A k \in 1..Len(fnd.data) : fnd.data[k] = 97
    /\ fnd.tokens = <<Lit(97), Lit(97), Lit(97), MatchToken(3, 3), MatchToken(6, 3)>>

\* ------------------------------------------- specification: the sliding window
\* LZWindow of src/lz_window.py: a ring buffer of max_size bytes, pos the next
\* place to write, size the number of bytes held.

MIN_MATCH == 3
MAX_MATCH == 258

MaxAdds == 5            \* bytes added to a window
MaxData == 4            \* longest short input of find
LongData == 260         \* length of the input that reaches MAX_MATCH
RingSizes == {4, 8}
WindowAlphabet == {97, 98}
WindowData ==
    UNION {[1..n -> WindowAlphabet] : n \in 0..MaxData} \cup {[k \in 1..LongData |-> 97]}

NoneFound == [dist |-> 0, length |-> 0]
\* last is the latest call of find on the window as it is; none after an add.
NoFind == [data |-> <<>>, offset |-> -1, result |-> NoneFound]

\* LZWindow.__init__(size) with size a power of two.
InitWindow ==
    /\ \E size \in RingSizes :
         win = [pc |-> "window", max_size |-> size, mask |-> size - 1,
                buffer |-> <<>> \o [k \in 1..size |-> 0],
                pos |-> 0, size |-> 0, adds |-> 0, last |-> NoFind]
    /\ mapping = Off /\ canon = Off /\ huff = Off
    /\ lz = Off /\ enc = Off /\ dec = Off /\ blk = Off /\ rle = Off
    /\ stm = Off /\ inf = Off /\ bio = Off /\ fnd = Off /\ turns = Off

\* "& self.mask" on a number above -max_size, max_size a power of two.
and_mask(w, x) == (x + w.max_size) % w.max_size

\* LZWindow.add(data) with data an int.
window_add(w, b) ==
    [w EXCEPT !.buffer = [@ EXCEPT ![w.pos + 1] = b],
              !.pos = and_mask(w, w.pos + 1),
              !.size = IF w.size < w.max_size THEN w.size + 1 ELSE w.size]

\* LZWindow.find, one turn of "while match_len < self.MAX_MATCH and y < end and
\* self.buffer[x] == data[y]" on [x, y, match_len]; a state the loop has left
\* stays as it is.
window_match_turn(w, data, start, st) ==
    IF st.match_len < MAX_MATCH /\ st.y < Len(data) /\ w.buffer[st.x + 1] = data[st.y + 1]
    THEN LET x1 == and_mask(w, st.x + 1)
         IN  [x |-> IF x1 = w.pos THEN start ELSE x1,
              y |-> st.y + 1, match_len |-> st.match_len + 1]
    ELSE st

\* n turns of the loop, the first half of them and then the rest; the rest changes
\* nothing when the loop left in the first half.
RECURSIVE window_match_turns(_, _, _, _, _)
window_match_turns(w, data, start, st, n) ==
    IF n <= 0 THEN st
    ELSE IF n = 1 THEN window_match_turn(w, data, start, st)
    ELSE LET first == window_match_turns(w, data, start, st, n \div 2)
         IN  IF first.y - st.y < n \div 2 THEN first
             ELSE window_match_turns(w, data, start, first, n - (n \div 2))

\* the loop leaves after Min(MAX_MATCH, end - offset) turns at most.
window_match_len(w, data, offset, dist) ==
    LET start == and_mask(w, w.pos - dist)
    IN  window_match_turns(w, data, start, [x |-> start, y |-> offset, match_len |-> 0],
                           Min(MAX_MATCH, Len(data) - offset)).match_len

\* LZWindow.find, "for dist in range(1, self.size + 1)": the pair of the first
\* distance whose match length is MIN_MATCH or more.
RECURSIVE window_find_from(_, _, _, _)
window_find_from(w, data, offset, dist) ==
    IF dist > w.size THEN NoneFound
    ELSE LET match_len == window_match_len(w, data, offset, dist)
         IN  IF match_len >= MIN_MATCH THEN [dist |-> dist, length |-> match_len]
             ELSE window_find_from(w, data, offset, dist + 1)

\* LZWindow.find(data, offset); NoneFound stands for None.
window_find(w, data, offset) ==
    IF w.size = 0 THEN NoneFound ELSE window_find_from(w, data, offset, 1)

WindowAdd ==
    /\ win.pc = "window"
    /\ win.adds < MaxAdds
    /\ \E b \in WindowAlphabet :
         win' = [window_add(win, b) EXCEPT !.adds = win.adds + 1, !.last = NoFind]

WindowFind ==
    /\ win.pc = "window"
    /\ \E data \in WindowData, offset \in 0..MaxData :
         /\ offset <= Len(data)
         /\ win' = [win EXCEPT !.last = [data |-> data, offset |-> offset,
                                         result |-> window_find(win, data, offset)]]

NextWindow ==
    (WindowAdd \/ WindowFind)
    /\ UNCHANGED <<mapping, canon, huff, lz, enc, dec, blk, rle, stm, inf, bio, fnd, turns>>

SpecWindow == InitWindow /\ [][NextWindow]_vars

\* the byte the window holds j places after the place dist bytes back, the dist
\* bytes before pos repeated over and over.
window_byte(w, dist, j) == w.buffer[and_mask(w, w.pos - dist + (j % dist)) + 1]

\* the length of the match of data[offset:] at a distance: the longest agreeing
\* prefix, MAX_MATCH at most.
match_at_distance(w, data, offset, dist) ==
    LET agree == {k \in 0..Min(MAX_MATCH, Len(data) - offset) :
                     \A j \in 0..(k - 1) : data[offset + j + 1] = window_byte(w, dist, j)}
    IN  SetMax(agree)

match_lengths(w, data, offset) ==
    {match_at_distance(w, data, offset, dist) : dist \in 1..w.size}

FindCalled == win.pc = "window" /\ win.last.offset >= 0

\* C26: find returns the longest match of data[offset:] over the distances 1..size
\* held in the window, of length MAX_MATCH at most, and None exactly when no
\* distance gives a match of MIN_MATCH or more.
C26_FindLongest ==
    FindCalled =>
        LET lengths == match_lengths(win, win.last.data, win.last.offset)
            result == win.last.result
            some == \E l \in lengths : l >= MIN_MATCH
        IN  /\ (result = NoneFound) <=> ~some
            /\ result # NoneFound =>
                 /\ result.dist \in 1..win.size
                 /\ result.length = SetMax(lengths)
                 /\ result.length =
                        match_at_distance(win, win.last.data, win.last.offset, result.dist)

\* what find does return: the nearest distance with a match of MIN_MATCH or more,
\* with the length of the match at that distance; None exactly when there is none.
FindNearest ==
    FindCalled =>
        LET data == win.last.data
            offset == win.last.offset
            result == win.last.result
            good == {dist \in 1..win.size :
                        match_at_distance(win, data, offset, dist) >= MIN_MATCH}
        IN  /\ (result = NoneFound) <=> (good = {})
            /\ result # NoneFound =>
                 /\ result.dist \in good
                 /\ \A dist \in good : result.dist <= dist
                 /\ result.length = match_at_distance(win, data, offset, result.dist)
                 /\ result.length <= MAX_MATCH

\* a call of find that returned a match shorter than the longest one in the window.
ShorterMatchReturned ==
    /\ FindCalled
    /\ win.last.result # NoneFound
    /\ win.last.result.length <
           SetMax(match_lengths(win, win.last.data, win.last.offset))

\* a call of find whose match stopped at MAX_MATCH, on a window that had wrapped.
MaxMatchReturned ==
    /\ FindCalled
    /\ win.last.result.length = MAX_MATCH
    /\ win.adds > win.max_size

\* ------------------------------- specification: the decoders, loop turn by turn
\* Deflate.decompress (src/deflate.py) and Deflate.decompress_file
\* (src/algorithms/deflate.py) on a file, one step per turn of the block loop
\* "while not is_final_block", of the code-length loop "while i < hlit + hdist"
\* and of the symbol loop "while True" of _decode_huffman_data.

\* the files: the streams of the block decoders, cut after any number of bytes,
\* and every file of one byte.
Prefixes(file) == {SubSeq(file, 1, n) : n \in 0..Len(file)}

TurnStreams(decoder) ==
    {stream_of(decoder, <<last>>).file : last \in BlocksFor(decoder)}
    \cup {stream_of(decoder, <<lead, last>>).file :
             lead \in LeadBlocks, last \in BlocksFor(decoder)}

TurnFiles(decoder) ==
    UNION {Prefixes(file) : file \in TurnStreams(decoder)} \cup {<<b>> : b \in 0..255}

\* the steps of a decoder: the file is opened, a loop takes a turn, the output is
\* written.
Loops == {"open", "blocks", "lengths", "symbols", "write"}

turn_of(loop) == [turns EXCEPT ![loop] = @ + 1]

InitTurns ==
    /\ \E decoder \in Decoders :
         \E file \in TurnFiles(decoder) :
            dec = [pc |-> "call", decoder |-> decoder, file |-> file,
                   bits |-> <<>>, pos |-> 0, decoded_data |-> <<>>,
                   is_final_block |-> FALSE, exit |-> "", headers |-> <<>>,
                   result |-> <<>>,
                   block_start |-> 0, tables |-> "", hlit |-> 0, hdist |-> 0,
                   cl_lengths |-> <<>>, i |-> 0, code_lengths |-> <<>>]
    /\ turns = [k \in Loops |-> 0]
    /\ mapping = Off /\ canon = Off /\ huff = Off /\ lz = Off /\ enc = Off
    /\ blk = Off /\ rle = Off /\ stm = Off /\ inf = Off /\ bio = Off
    /\ fnd = Off /\ win = Off

\* BitReader(input_file); decompress_file reads the extension header first.
TurnsOpen ==
    /\ dec.pc = "call"
    /\ LET bits == fromfile(dec.file)
           ext_len == read_bits_lsb(bits, 0, 8)
           ext_bytes == read_ext_bytes(bits, ext_len.pos, ext_len.val)
       IN  dec' = IF dec.decoder = "src" THEN [dec EXCEPT !.bits = bits, !.pc = "blocks"]
                  ELSE IF ext_len.eof \/ ext_bytes.eof
                       THEN [dec EXCEPT !.bits = bits, !.exit = "ValueError", !.pc = "raised"]
                       ELSE [dec EXCEPT !.bits = bits, !.pos = ext_bytes.pos, !.pc = "blocks"]
    /\ turns' = turn_of("open")

\* _decompress_32kb_block up to its "while i < hlit + hdist": the three counts,
\* their test, the code-length code lengths and "if not cl_tree".
dynamic_header(bits, pos) ==
    LET h1 == read_bits_lsb(bits, pos, 5)
        h2 == read_bits_lsb(bits, h1.pos, 5)
        h3 == read_bits_lsb(bits, h2.pos, 4)
        hlit == h1.val + 257
        hdist == h2.val + 1
        hclen == h3.val + 4
        cl == read_cl_lengths(bits, h3.pos, 0, hclen, Repeat(19, 0))
    IN  IF h1.eof \/ h2.eof \/ h3.eof \/ hlit > 286 \/ hdist > 30 \/ hclen > 19
        THEN [ok |-> FALSE, pos |-> pos, hlit |-> 0, hdist |-> 0, cl_lengths |-> <<>>]
        ELSE [ok |-> ~cl.eof /\ DOMAIN _build_huffman_tree_from_lengths(cl.cl_lengths) # {},
              pos |-> cl.pos, hlit |-> hlit, hdist |-> hdist, cl_lengths |-> cl.cl_lengths]

\* where a turn of the block loop leads: an exception leaves the method, a break
\* or a final block leads to the output being written.
after_turn(st) ==
    [st EXCEPT !.pc = IF st.exit \in {"ValueError", "EOFError"} THEN "raised"
                      ELSE IF st.exit = "break" \/ st.is_final_block THEN "write"
                      ELSE "blocks"]

\* one turn of "while not is_final_block" up to the block's loops: BFINAL and
\* BTYPE, then a stored block as a whole, a fixed-Huffman block up to its
\* symbol loop, a dynamic-Huffman block of Deflate.decompress up to its
\* code-length loop; every other header ends the turn at once.
BlockTurn ==
    /\ dec.pc = "blocks"
    /\ ~dec.is_final_block
    /\ LET b == read_bit(dec.bits, dec.pos)
           t == read_bits_lsb(dec.bits, b.pos, 2)
           header == dynamic_header(dec.bits, t.pos)
           seen == [dec EXCEPT !.is_final_block = (b.val = 1), !.pos = t.pos,
                               !.headers = Append(@, <<b.val, t.val>>),
                               !.block_start = dec.pos]
       IN  dec' = IF ~b.eof /\ ~t.eof /\ t.val = 1
                  THEN [seen EXCEPT !.tables = "fixed", !.pc = "symbols"]
                  ELSE IF ~b.eof /\ ~t.eof /\ t.val = 2 /\ dec.decoder = "src" /\ header.ok
                  THEN [seen EXCEPT !.tables = "dynamic", !.pos = header.pos,
                                    !.hlit = header.hlit, !.hdist = header.hdist,
                                    !.cl_lengths = header.cl_lengths,
                                    !.i = 0, !.code_lengths = <<>>, !.pc = "lengths"]
                  ELSE after_turn([(IF dec.decoder = "src" THEN src_decompress_block(dec)
                                    ELSE decompress_block(dec))
                                      EXCEPT !.block_start = dec.pos])
    /\ turns' = turn_of("blocks")

\* one turn of "while i < hlit + hdist"; after the last one the two decode tables
\* are built ("if not lit_len_tree", "if not dist_tree"). Every exception is the
\* ValueError of _decompress_32kb_block.
LengthTurn ==
    /\ dec.pc = "lengths"
    /\ LET st == read_code_lengths([err |-> "", i |-> dec.i, pos |-> dec.pos,
                                    code_lengths |-> dec.code_lengths],
                                   dec.bits, _build_huffman_tree_from_lengths(dec.cl_lengths),
                                   dec.i + 1)
           turned == [dec EXCEPT !.i = st.i, !.pos = st.pos,
                                 !.code_lengths = st.code_lengths]
           lit_len_tree == _build_huffman_tree_from_lengths(
                               slice(st.code_lengths, 0, dec.hlit))
           dist_tree == _build_huffman_tree_from_lengths(
                            slice(st.code_lengths, dec.hlit, dec.hlit + dec.hdist))
       IN  dec' = IF st.err # ""
                  THEN [turned EXCEPT !.exit = "ValueError", !.pc = "raised"]
                  ELSE IF st.i < dec.hlit + dec.hdist THEN turned
                  ELSE IF DOMAIN lit_len_tree = {} \/ DOMAIN dist_tree = {}
                       THEN [turned EXCEPT !.exit = "ValueError", !.pc = "raised"]
                       ELSE [turned EXCEPT !.pc = "symbols"]
    /\ turns' = turn_of("lengths")

\* the decode tables of the block at hand.
turn_lit_len_tree ==
    IF dec.tables = "fixed" THEN _create_fixed_huffman_lit_len_tree
    ELSE _build_huffman_tree_from_lengths(slice(dec.code_lengths, 0, dec.hlit))

turn_dist_tree ==
    IF dec.tables = "fixed" THEN _create_fixed_huffman_dist_tree
    ELSE _build_huffman_tree_from_lengths(
             slice(dec.code_lengths, dec.hlit, dec.hlit + dec.hdist))

\* one turn of "while True" of _decode_huffman_data. An exception leaves
\* Deflate.decompress (as a ValueError out of a dynamic block); decompress_file
\* breaks its block loop on EOFError.
SymbolTurn ==
    /\ dec.pc = "symbols"
    /\ LET st0 == [err |-> "", done |-> FALSE, pos |-> dec.pos, out |-> dec.decoded_data]
           st == IF dec.decoder = "src"
                 THEN src_decode_turn(st0, dec.bits, turn_lit_len_tree, turn_dist_tree)
                 ELSE decode_turn(st0, dec.bits, turn_lit_len_tree, turn_dist_tree)
           turned == [dec EXCEPT !.pos = st.pos, !.decoded_data = st.out]
       IN  dec' = IF st.err # ""
                  THEN after_turn([turned EXCEPT
                           !.exit = IF dec.decoder = "alg"
                                    THEN (IF st.err = "EOFError" THEN "break" ELSE st.err)
                                    ELSE IF dec.tables = "dynamic" THEN "ValueError"
                                    ELSE st.err])
                  ELSE IF st.done THEN after_turn(turned)
                  ELSE turned
    /\ turns' = turn_of("symbols")

\* the decoded bytes are written to the output file and returned.
TurnsWrite ==
    /\ dec.pc = "write"
    /\ dec' = [dec EXCEPT !.result = dec.decoded_data, !.pc = "done"]
    /\ turns' = turn_of("write")

NextTurns ==
    (TurnsOpen \/ BlockTurn \/ LengthTurn \/ SymbolTurn \/ TurnsWrite)
    /\ UNCHANGED <<mapping, canon, huff, lz, enc, blk, rle, stm, inf, bio, fnd, win>>

SpecTurns == InitTurns /\ [][NextTurns]_vars

Terminated == dec.pc \in {"done", "raised"}

\* the decoder is one sequential program: while it has neither returned nor
\* raised, its next step is taken, and a step is the turn of one of the loops.
Scheduled == ~Terminated /\ \E loop \in Loops : turns' = turn_of(loop)

FairTurns == SpecTurns /\ WF_turns(Scheduled)

\* wherever the decoder has neither returned nor raised, a step is left to take.
StepLeft ==
    \/ Terminated
    \/ dec.pc \in {"call", "lengths", "symbols", "write"}
    \/ dec.pc = "blocks" /\ ~dec.is_final_block

\* a turn after which its loop goes on has moved the reader forward by one bit or
\* more: the code-length loop, the symbol loop, and the block loop from the
\* header of one block to the header of the next.
TurnProgress ==
    /\ (dec.pc = "lengths" /\ dec'.pc = "lengths") => dec'.pos > dec.pos
    /\ (dec.pc = "symbols" /\ dec'.pc = "symbols") => dec'.pos > dec.pos
    /\ (dec.pc \in {"blocks", "symbols"} /\ dec'.pc = "blocks") =>
          dec'.pos > (IF dec.pc = "blocks" THEN dec.pos ELSE dec.block_start)

\* C29: on every finite input Deflate.decompress and decompress_file terminate,
\* returning output or raising an error, and every turn of the block loop, of
\* the code-length loop and of the symbol loop consumes at least one bit or ends
\* its loop.
C29_DecodersTerminate == []StepLeft /\ [][TurnProgress]_vars /\ <>Terminated

\* C29, the case: Deflate.decompress has returned the output of a stream of two
\* blocks after several turns of the code-length loop and of the symbol loop.
C29_Witness ==
    /\ dec.pc = "done" /\ dec.decoder = "src"
    /\ turns.blocks >= 2
    /\ turns.lengths >= 2
    /\ turns.symbols >= 2

\* decompress_file has returned after two blocks, and a decoder has raised an
\* error in the middle of a loop.
FileDecoderReturned ==
    /\ dec.pc = "done" /\ dec.decoder = "alg"
    /\ turns.blocks >= 2 /\ turns.symbols >= 2

RaisedInLengthLoop == dec.pc = "raised" /\ turns.lengths >= 2 /\ turns.symbols = 0

====
